---- MODULE Spec2Model ----
(***************************************************************************)
(* A model of the voxel core of awgen: chunk block storage (ChunkData),    *)
(* the occlusion pass, block-mesh assembly and the remesh scheduler.       *)
(*                                                                         *)
(* Specification Spec     : one chunk's ChunkData under fill, set and      *)
(*                          try_convert_to_single.                         *)
(* Specification SpecBuild: the occlusion pass and build_models applied to *)
(*                          a chunk made by fill and set.                  *)
(* Specification SpecMesh : BlockMesh::append_to on one template and mask. *)
(* Specification SpecSched: the chunk registry and the remesh markers      *)
(*                          under the systems of the Update schedule.      *)
(***************************************************************************)
EXTENDS Integers, Sequences, FiniteSets, TLC

\* ------------------------------------------------------------------------
\* Bounds of the model.
\* ------------------------------------------------------------------------

\* math/pos.rs sets CHUNK_BITS to 4 (16^3 slots per chunk).  The model keeps
\* every formula of the source in terms of CHUNK_BITS but explores chunks of
\* 2^CHUNK_BITS slots per axis with the smaller value below.
CHUNK_BITS == 2

\* Spec: the number of set calls applied to a filled chunk.
MaxOps == 2

\* SpecBuild: the number of set calls that made the chunk build_models is
\* applied to.
MaxEdits == 1

\* SpecSched: the number of ticks of the Update schedule that are run.
MaxTicks == 3

\* SpecSched: the number of clicks the edit systems handle.
MaxClicks == 1

\* SpecEdit: the number of ticks.
MaxFrames == 2

\* SpecAppend: the number of parts appended to one buffer.
MaxAppends == 3

\* The width in bits of a u16 index at a scaled width: u16::MAX is
\* 2 ^ U16_BITS - 1.
U16_BITS == 3

\* The greatest number of parts of a chunk and of models built for it in
\* SpecParts.
MaxParts == 3

\* The greatest number of jobs and futures a job of SpecJobs leads to, one
\* enqueued by the other.
MaxChain == 2

\* f32::MANTISSA_DIGITS at a scaled width: every integer up to 2 ^ digits is
\* an f32, and above it only every other one.
F32_MANTISSA_DIGITS == 3

\* SpecWorld: the number of spawn_chunk and despawn_chunk commands applied.
MaxCommands == 3

\* The width in bits of the priority of NeedsRemeshLater, an i32 in the
\* source: the model keeps the two's complement arithmetic at a width whose
\* range the ticks of the model can cross.
I32_BITS == 3

\* ------------------------------------------------------------------------
\* math/pos.rs, math/dir.rs
\* ------------------------------------------------------------------------

CHUNK_SIZE == 2 ^ CHUNK_BITS

TOTAL_BLOCKS == CHUNK_SIZE * CHUNK_SIZE * CHUNK_SIZE

\* The part of a usize the model keeps: its low 16 bits.  Every mask applied
\* to a usize in the model is below this modulus.
UsizeModulus == 2 ^ 16

\* `v as usize` of an i32: two's complement, truncated to the bits kept.
AsUsize(v) == IF v >= 0 THEN v % UsizeModulus ELSE UsizeModulus + v

\* Bitwise and of two naturals.
RECURSIVE BitAnd(_, _)
BitAnd(a, b) ==
    IF a = 0 \/ b = 0 THEN 0
    ELSE (IF a % 2 = 1 /\ b % 2 = 1 THEN 1 ELSE 0) + 2 * BitAnd(a \div 2, b \div 2)

BlockPos(x, y, z) == [x |-> x, y |-> y, z |-> z]

ChunkPos(x, y, z) == [x |-> x, y |-> y, z |-> z]

\* BlockPos::index
index(pos) ==
    LET x == BitAnd(AsUsize(pos.x), CHUNK_SIZE - 1)
        y == BitAnd(AsUsize(pos.y), CHUNK_SIZE - 1)
        z == BitAnd(AsUsize(pos.z), CHUNK_SIZE - 1)
    IN  x + y * CHUNK_SIZE + z * CHUNK_SIZE * CHUNK_SIZE

\* The width in bits of a coordinate, an i32 in the source: the model keeps
\* the two's complement arithmetic at a width of four chunks to the axis.
POS_BITS == CHUNK_BITS + 2

POS_MIN == -(2 ^ (POS_BITS - 1))

POS_MAX == 2 ^ (POS_BITS - 1) - 1

\* An i32 sum in a build without overflow checks.
wrapping_add(a, b) == ((a + b - POS_MIN) % (2 ^ POS_BITS)) + POS_MIN

\* min + CHUNK_SIZE overflows in is_in_bounds: a build with overflow checks
\* panics there.
is_in_bounds_overflows(chunk) ==
    \E a \in {"x", "y", "z"} : chunk[a] * CHUNK_SIZE + CHUNK_SIZE > POS_MAX

\* BlockPos::is_in_bounds in a build without overflow checks (<< CHUNK_BITS
\* is a multiplication by CHUNK_SIZE)
is_in_bounds(pos, chunk) ==
    LET min == BlockPos(chunk.x * CHUNK_SIZE, chunk.y * CHUNK_SIZE, chunk.z * CHUNK_SIZE)
        max == BlockPos(wrapping_add(min.x, CHUNK_SIZE), wrapping_add(min.y, CHUNK_SIZE),
                        wrapping_add(min.z, CHUNK_SIZE))
    IN  /\ pos.x >= min.x
        /\ pos.x < max.x
        /\ pos.y >= min.y
        /\ pos.y < max.y
        /\ pos.z >= min.z
        /\ pos.z < max.z

\* Option<T>: None is the empty tuple, Some(v) the tuple of v.
None == << >>

Some(v) == <<v>>

\* BlockPos::index_no_wrap
index_no_wrap(pos) ==
    IF ~is_in_bounds(pos, ChunkPos(0, 0, 0)) THEN None ELSE Some(index(pos))

FaceDirection == {"Up", "Down", "North", "South", "East", "West"}

\* impl From<FaceDirection> for IVec3
IVec3From(dir) ==
    CASE dir = "Up" -> [x |-> 0, y |-> 1, z |-> 0]
      [] dir = "Down" -> [x |-> 0, y |-> -1, z |-> 0]
      [] dir = "North" -> [x |-> 0, y |-> 0, z |-> -1]
      [] dir = "South" -> [x |-> 0, y |-> 0, z |-> 1]
      [] dir = "East" -> [x |-> 1, y |-> 0, z |-> 0]
      [] dir = "West" -> [x |-> -1, y |-> 0, z |-> 0]

\* FaceDirection::opposite
opposite(dir) ==
    CASE dir = "Up" -> "Down"
      [] dir = "Down" -> "Up"
      [] dir = "North" -> "South"
      [] dir = "South" -> "North"
      [] dir = "East" -> "West"
      [] dir = "West" -> "East"

\* BlockPos::shift
shift(pos, dir, amount) ==
    LET offset == IVec3From(dir)
    IN  BlockPos(pos.x + offset.x * amount,
                 pos.y + offset.y * amount,
                 pos.z + offset.z * amount)

\* ------------------------------------------------------------------------
\* map/chunk.rs
\* ------------------------------------------------------------------------

Slots == 0 .. (TOTAL_BLOCKS - 1)

\* ChunkData::fill
fill(block) == [kind |-> "Single", block |-> block]

\* ChunkData::get
get(self, pos) ==
    IF self.kind = "Single" THEN self.block ELSE self.blocks[index(pos)]

\* ChunkData::get_index
get_index(self, i) ==
    IF self.kind = "Single" THEN self.block ELSE self.blocks[i]

\* set with the array of a promoted chunk filled with the new block instead
\* of the old one.
set_promote_new(self, pos, block) ==
    IF get(self, pos) = block
    THEN [chunk |-> self, ret |-> FALSE]
    ELSE IF self.kind = "Single"
         THEN [chunk |-> [kind |-> "Multiple", blocks |-> [i \in Slots |-> block]],
               ret |-> TRUE]
         ELSE [chunk |-> [kind |-> "Multiple",
                          blocks |-> [self.blocks EXCEPT ![index(pos)] = block]],
               ret |-> TRUE]

\* set without the early return for an unchanged value.
set_no_early_return(self, pos, block) ==
    IF self.kind = "Single"
    THEN [chunk |-> [kind |-> "Multiple",
                     blocks |-> [[i \in Slots |-> self.block]
                                    EXCEPT ![index(pos)] = block]],
          ret |-> TRUE]
    ELSE [chunk |-> [kind |-> "Multiple",
                     blocks |-> [self.blocks EXCEPT ![index(pos)] = block]],
          ret |-> TRUE]

\* ChunkData::set: the chunk after the call and the value returned.
set(self, pos, block) ==
    IF get(self, pos) = block
    THEN [chunk |-> self, ret |-> FALSE]
    ELSE IF self.kind = "Single"
         THEN [chunk |-> [kind |-> "Multiple",
                          blocks |-> [[i \in Slots |-> self.block]
                                         EXCEPT ![index(pos)] = block]],
               ret |-> TRUE]
         ELSE [chunk |-> [kind |-> "Multiple",
                          blocks |-> [self.blocks EXCEPT ![index(pos)] = block]],
               ret |-> TRUE]

\* try_convert_to_single comparing only the first two slots.
try_convert_first_two(self) ==
    IF self.kind = "Multiple" /\ self.blocks[1] = self.blocks[0]
    THEN [chunk |-> [kind |-> "Single", block |-> self.blocks[0]], ret |-> TRUE]
    ELSE [chunk |-> self, ret |-> FALSE]

\* ChunkData::try_convert_to_single: the chunk after the call and the value
\* returned.
try_convert_to_single(self) ==
    IF self.kind = "Multiple" /\ \A i \in Slots : self.blocks[i] = self.blocks[0]
    THEN [chunk |-> [kind |-> "Single", block |-> self.blocks[0]], ret |-> TRUE]
    ELSE [chunk |-> self, ret |-> FALSE]

\* ChunkData::iter: the distinct ids of the chunk (sorted and deduplicated).
iter(self) ==
    IF self.kind = "Single" THEN {self.block} ELSE {self.blocks[i] : i \in Slots}

\* ------------------------------------------------------------------------
\* utilities/chunk_iter.rs
\* ------------------------------------------------------------------------

\* ChunkIterator: the positions in the order next() yields them (x outermost,
\* z innermost), from (0,0,0) until x reaches SIZE.
ChunkIterator ==
    [n \in 1 .. TOTAL_BLOCKS |->
        BlockPos((n - 1) \div (CHUNK_SIZE * CHUNK_SIZE),
                 ((n - 1) \div CHUNK_SIZE) % CHUNK_SIZE,
                 (n - 1) % CHUNK_SIZE)]

ChunkIteratorSet == {ChunkIterator[n] : n \in 1 .. TOTAL_BLOCKS}

\* ------------------------------------------------------------------------
\* The block registry: the Block entities and their components.
\* ------------------------------------------------------------------------

\* air and grass are spawned by map::setup; statue is a block with a custom
\* shape; stale is an entity without block components (a despawned block).
Blocks == {"air", "grass", "statue", "stale"}

Err == "Err"

\* Query<&BlockShape>::get: the shape kind of the block, or Err.
block_shapes_get(block) ==
    CASE block = "air" -> "None"
      [] block = "grass" -> "Cube"
      [] block = "statue" -> "Custom"
      [] OTHER -> Err

\* BlockShape::occlusion
occlusion(shape) ==
    CASE shape = "None" -> {}
      [] shape = "Cube" -> FaceDirection
      [] shape = "Custom" -> {}

\* ------------------------------------------------------------------------
\* map/blocks/occlusion.rs
\* ------------------------------------------------------------------------

\* BlockDataOccludes::from_block_data
BlockDataOccludes_from_block_data(blocks) ==
    [i \in Slots |->
        LET block == get_index(blocks, i)
            model == block_shapes_get(block)
        IN  IF model # Err THEN occlusion(model) ELSE {}]

\* BlockDataOccludes::get reading through the wrapping index.
BlockDataOccludes_get_wrap(self, pos) == self[index(pos)]

\* BlockDataOccludes::get
BlockDataOccludes_get(self, pos) ==
    LET i == index_no_wrap(pos)
    IN  IF i = None THEN {} ELSE self[i[1]]

\* occluded_by_at with the North and South neighbours exchanged.
occluded_by_at_swapped(occ, pos) ==
    (IF "Down" \in BlockDataOccludes_get(occ, shift(pos, "Up", 1)) THEN {"Up"} ELSE {})
    \cup (IF "Up" \in BlockDataOccludes_get(occ, shift(pos, "Down", 1)) THEN {"Down"} ELSE {})
    \cup (IF "South" \in BlockDataOccludes_get(occ, shift(pos, "South", 1)) THEN {"North"} ELSE {})
    \cup (IF "North" \in BlockDataOccludes_get(occ, shift(pos, "North", 1)) THEN {"South"} ELSE {})
    \cup (IF "West" \in BlockDataOccludes_get(occ, shift(pos, "East", 1)) THEN {"East"} ELSE {})
    \cup (IF "East" \in BlockDataOccludes_get(occ, shift(pos, "West", 1)) THEN {"West"} ELSE {})

\* The body of the loop of from_occlusion: the OccludedBy flags of one position.
occluded_by_at(occ, pos) ==
    (IF "Down" \in BlockDataOccludes_get(occ, shift(pos, "Up", 1)) THEN {"Up"} ELSE {})
    \cup (IF "Up" \in BlockDataOccludes_get(occ, shift(pos, "Down", 1)) THEN {"Down"} ELSE {})
    \cup (IF "South" \in BlockDataOccludes_get(occ, shift(pos, "North", 1)) THEN {"North"} ELSE {})
    \cup (IF "North" \in BlockDataOccludes_get(occ, shift(pos, "South", 1)) THEN {"South"} ELSE {})
    \cup (IF "West" \in BlockDataOccludes_get(occ, shift(pos, "East", 1)) THEN {"East"} ELSE {})
    \cup (IF "East" \in BlockDataOccludes_get(occ, shift(pos, "West", 1)) THEN {"West"} ELSE {})

\* The slots BlockDataOccludedBy::set writes while from_occlusion iterates, and
\* the position written to each (set does nothing outside the chunk bounds).
IteratedSlots ==
    {index_no_wrap(pos)[1] : pos \in {q \in ChunkIteratorSet : index_no_wrap(q) # None}}

IteratedPos ==
    [i \in IteratedSlots |->
        CHOOSE pos \in ChunkIteratorSet : index_no_wrap(pos) = Some(i)]

\* BlockDataOccludedBy::from_occlusion: new() leaves every slot empty, the loop
\* sets the slot of every position of the ChunkIterator.
from_occlusion(occ) ==
    [i \in Slots |->
        IF i \in IteratedSlots THEN occluded_by_at(occ, IteratedPos[i]) ELSE {}]

\* BlockDataOccludedBy::from_block_data
BlockDataOccludedBy_from_block_data(blocks) ==
    from_occlusion(BlockDataOccludes_from_block_data(blocks))

\* BlockDataOccludedBy::get reading through the wrapping index.
BlockDataOccludedBy_get_wrap(self, pos) == self[index(pos)]

\* BlockDataOccludedBy::get
BlockDataOccludedBy_get(self, pos) ==
    LET i == index_no_wrap(pos)
    IN  IF i = None THEN {} ELSE self[i[1]]

\* ------------------------------------------------------------------------
\* utilities/meshbuf.rs, map/blocks/mesh.rs
\* ------------------------------------------------------------------------

\* MeshBuf::new
MeshBuf_new == [positions |-> << >>, normals |-> << >>, uvs |-> << >>, indices |-> << >>]

\* The fields of a BlockMesh, in the order append_to visits them.
PartNames == <<"center", "top", "bottom", "north", "south", "east", "west">>

\* From<[BlockVertex; 4]> for BlockMeshPart: the quad of one part.  A vertex
\* position is the part, the corner and the translation applied so far.
Quad(part) ==
    [vertices |-> [k \in 1 .. 4 |->
                      [position |-> [part |-> part, corner |-> k, at |-> BlockPos(0, 0, 0)],
                       normal |-> part,
                       uv |-> k]],
     indices |-> <<0, 1, 2, 0, 2, 3>>]

\* A BlockMesh whose parts are the quads of the given fields.
BlockMeshOf(parts) ==
    [f \in {PartNames[n] : n \in 1 .. 7} |-> IF f \in parts THEN Some(Quad(f)) ELSE None]

\* The mesh update_block_model builds for BlockShape::Cube: six faces, no center.
CubeMesh == BlockMeshOf({"top", "bottom", "north", "south", "east", "west"})

\* BlockMesh::translate
translate(self, by) ==
    [f \in DOMAIN self |->
        IF self[f] = None THEN None
        ELSE Some([self[f][1] EXCEPT !.vertices =
                 [k \in DOMAIN @ |->
                     [@[k] EXCEPT !.position.at =
                         BlockPos(@.x + by.x, @.y + by.y, @.z + by.z)]]])]

\* BlockMeshPart::append_to pushing the indices of the part as they are.
BlockMeshPart_append_to_no_offset(self, mesh) ==
    [positions |-> mesh.positions
                     \o [k \in DOMAIN self.vertices |-> self.vertices[k].position],
     normals |-> mesh.normals
                     \o [k \in DOMAIN self.vertices |-> self.vertices[k].normal],
     uvs |-> mesh.uvs \o [k \in DOMAIN self.vertices |-> self.vertices[k].uv],
     indices |-> mesh.indices \o self.indices]

\* BlockMeshPart::append_to
BlockMeshPart_append_to(self, mesh) ==
    LET offset == Len(mesh.positions)
    IN  [positions |-> mesh.positions
                         \o [k \in DOMAIN self.vertices |-> self.vertices[k].position],
         normals |-> mesh.normals
                         \o [k \in DOMAIN self.vertices |-> self.vertices[k].normal],
         uvs |-> mesh.uvs \o [k \in DOMAIN self.vertices |-> self.vertices[k].uv],
         indices |-> mesh.indices
                         \o [k \in DOMAIN self.indices |-> self.indices[k] + offset]]

\* OccludedBy::is_all
is_all(flags) == FaceDirection \subseteq flags

\* append_to with the flags of the top and the bottom part exchanged.
append_to_top_bottom(self, occ, mesh) ==
    LET m1 == IF self.center # None /\ ~is_all(occ)
              THEN BlockMeshPart_append_to(self.center[1], mesh) ELSE mesh
        m2 == IF self.top # None /\ "Down" \notin occ
              THEN BlockMeshPart_append_to(self.top[1], m1) ELSE m1
        m3 == IF self.bottom # None /\ "Up" \notin occ
              THEN BlockMeshPart_append_to(self.bottom[1], m2) ELSE m2
        m4 == IF self.north # None /\ "North" \notin occ
              THEN BlockMeshPart_append_to(self.north[1], m3) ELSE m3
        m5 == IF self.south # None /\ "South" \notin occ
              THEN BlockMeshPart_append_to(self.south[1], m4) ELSE m4
        m6 == IF self.east # None /\ "East" \notin occ
              THEN BlockMeshPart_append_to(self.east[1], m5) ELSE m5
        m7 == IF self.west # None /\ "West" \notin occ
              THEN BlockMeshPart_append_to(self.west[1], m6) ELSE m6
    IN  m7

\* BlockMesh::append_to
append_to(self, occ, mesh) ==
    LET m1 == IF self.center # None /\ ~is_all(occ)
              THEN BlockMeshPart_append_to(self.center[1], mesh) ELSE mesh
        m2 == IF self.top # None /\ "Up" \notin occ
              THEN BlockMeshPart_append_to(self.top[1], m1) ELSE m1
        m3 == IF self.bottom # None /\ "Down" \notin occ
              THEN BlockMeshPart_append_to(self.bottom[1], m2) ELSE m2
        m4 == IF self.north # None /\ "North" \notin occ
              THEN BlockMeshPart_append_to(self.north[1], m3) ELSE m3
        m5 == IF self.south # None /\ "South" \notin occ
              THEN BlockMeshPart_append_to(self.south[1], m4) ELSE m4
        m6 == IF self.east # None /\ "East" \notin occ
              THEN BlockMeshPart_append_to(self.east[1], m5) ELSE m5
        m7 == IF self.west # None /\ "West" \notin occ
              THEN BlockMeshPart_append_to(self.west[1], m6) ELSE m6
    IN  m7

\* ------------------------------------------------------------------------
\* map/remesh.rs: build_models
\* ------------------------------------------------------------------------

\* Query<&BlockModel>::get: the model of the block, or Err.  update_block_model
\* derives the model from the shape: None for no shape, Primitive with the
\* cube mesh and the tileset material for a cube, Custom for a custom shape.
block_models_get(block) ==
    CASE block = "air" -> [kind |-> "None"]
      [] block = "grass" -> [kind |-> "Primitive", material |-> "overworld", mesh |-> CubeMesh]
      [] block = "statue" -> [kind |-> "Custom"]
      [] OTHER -> [kind |-> Err]

Materials == {"overworld"}

\* build_step appending every block as if nothing occluded it.
build_step_unoccluded(data, occluded, n, meshes) ==
    LET pos == ChunkIterator[n]
        block == get(data, pos)
        model == block_models_get(block)
    IN  IF model.kind = Err THEN meshes
        ELSE IF model.kind # "Primitive" THEN meshes
        ELSE LET mesh_buf == IF model.material \in DOMAIN meshes
                             THEN meshes[model.material] ELSE MeshBuf_new
                 block_mesh == translate(model.mesh, pos)
                 out == append_to(block_mesh, {}, mesh_buf)
             IN  [m \in DOMAIN meshes \cup {model.material} |->
                     IF m = model.material THEN out ELSE meshes[m]]

\* The body of the loop of build_models for the position n of the
\* ChunkIterator: meshes maps each material seen so far to its MeshBuf.
build_step(data, occluded, n, meshes) ==
    LET pos == ChunkIterator[n]
        block == get(data, pos)
        model == block_models_get(block)
    IN  IF model.kind = Err THEN meshes
        ELSE IF model.kind # "Primitive" THEN meshes
        ELSE LET mesh_buf == IF model.material \in DOMAIN meshes
                             THEN meshes[model.material] ELSE MeshBuf_new
                 block_mesh == translate(model.mesh, pos)
                 out == append_to(block_mesh, BlockDataOccludedBy_get(occluded, pos), mesh_buf)
             IN  [m \in DOMAIN meshes \cup {model.material} |->
                     IF m = model.material THEN out ELSE meshes[m]]

\* The loop of build_models giving up the buffers built so far at a block
\* whose model lookup fails.
RECURSIVE build_loop_reset(_, _, _, _, _)
build_loop_reset(data, occluded, lo, hi, meshes) ==
    IF lo = hi
    THEN IF block_models_get(get(data, ChunkIterator[lo])).kind = Err THEN << >>
         ELSE build_step(data, occluded, lo, meshes)
    ELSE LET mid == (lo + hi) \div 2
             first == build_loop_reset(data, occluded, lo, mid, meshes)
         IN  IF DOMAIN first = {}
             THEN build_loop_reset(data, occluded, mid + 1, hi, << >>)
             ELSE build_loop_reset(data, occluded, mid + 1, hi, first)

\* The loop of build_models over the positions lo .. hi of the ChunkIterator,
\* in order, starting from meshes: the first half, then the second half from
\* the result of the first.
RECURSIVE build_loop(_, _, _, _, _)
build_loop(data, occluded, lo, hi, meshes) ==
    IF lo = hi THEN build_step(data, occluded, lo, meshes)
    ELSE LET mid == (lo + hi) \div 2
             first == build_loop(data, occluded, lo, mid, meshes)
         IN  IF DOMAIN first = {}
             THEN build_loop(data, occluded, mid + 1, hi, << >>)
             ELSE build_loop(data, occluded, mid + 1, hi, first)

\* build_models: the MeshBuf of each material that has a primitive block in
\* the chunk (the ChunkModel list, before the conversion to Mesh).
build_models(data) ==
    LET occluded == BlockDataOccludedBy_from_block_data(data)
    IN  build_loop(data, occluded, 1, TOTAL_BLOCKS, << >>)

\* ------------------------------------------------------------------------
\* State
\* ------------------------------------------------------------------------

VARIABLES
    data,       \* Spec, SpecBuild: the ChunkData of the chunk
    slots,      \* Spec: a plain array of TOTAL_BLOCKS ids written alongside data
    ops,        \* Spec: the number of set calls made on data since fill
    last,       \* Spec: the last call: its name, arguments, result, data before it
    built,      \* SpecBuild: None, or Some of the occlusion map and buffers of build_models
    template,   \* SpecMesh: the BlockMesh appended
    mask,       \* SpecMesh: the OccludedBy flags given to append_to
    mesh,       \* SpecMesh: None, or Some of the MeshBuf after append_to
    chunks,     \* SpecSched: the chunk entities, by entity id
    registry,   \* SpecSched: VoxelWorld::chunks, chunk coordinate to entity id
    entities,   \* SpecSched: the number of chunk entities spawned so far
    changed,    \* SpecSched: the blocks whose BlockModel changed since it was last seen
    ran,        \* SpecSched: the systems that ran in the current tick
    buffers,    \* SpecSched: the commands each system queued in the current tick
    obs,        \* SpecSched: what the systems of the current tick saw and queued
    log,        \* SpecSched: None, or Some record of the last completed tick
    tick,       \* SpecSched: the number of completed ticks
    clicks,     \* SpecSched: the number of clicks handled so far
    panicked,   \* SpecSched: a command was applied to a despawned entity
    frame,      \* SpecLive: None, or Some of the order and the input of the tick begun
    ray,        \* SpecRay: None, or Some of a VoxelIterator and the cells it returned
    probe,      \* SpecQuery, SpecPos: None, or Some of the positions and results of a call;
                \* SpecAppend: the parts appended, each with the vertex count before it
    final,      \* SpecFinal: None, or Some of the Indices of the Mesh made from the buffer
    queue       \* SpecJobs: None, or Some of a ScriptEngineJobQueue and the state of run_jobs

chunkVars == <<data, slots, ops, last>>

meshVars == <<template, mask, mesh>>

schedVars ==
    <<chunks, registry, entities, changed, ran, buffers, obs, log, tick, clicks, panicked,
      frame>>

pureVars == <<ray, probe, final, queue>>

vars == <<data, slots, ops, last, built, template, mask, mesh, schedVars, pureVars>>

\* The values the variables of the other specifications rest at.
ChunkIdle ==
    /\ data = fill("air")
    /\ slots = [i \in Slots |-> "air"]
    /\ ops = 0
    /\ last = [op |-> "idle"]

MeshIdle ==
    /\ template = BlockMeshOf({})
    /\ mask = {}
    /\ mesh = None

PureIdle ==
    /\ ray = None
    /\ probe = None
    /\ final = None
    /\ queue = None

SchedIdle ==
    /\ chunks = << >>
    /\ registry = << >>
    /\ entities = 0
    /\ changed = {}
    /\ ran = {}
    /\ buffers = << >>
    /\ obs = << >>
    /\ log = None
    /\ tick = 0
    /\ clicks = 0
    /\ panicked = FALSE
    /\ frame = None

\* ------------------------------------------------------------------------
\* Spec: the ChunkData of one chunk
\* ------------------------------------------------------------------------

\* The positions handed to set: the corner, an interior cell, a cell of the
\* outer layer, and positions outside the chunk whose coordinates wrap onto
\* slots of the chunk.
EditPositions ==
    {BlockPos(0, 0, 0), BlockPos(1, 1, 1), BlockPos(CHUNK_SIZE - 1, 1, 1),
     BlockPos(-1, -1, -1), BlockPos(CHUNK_SIZE, 0, 0)}

\* The positions read back with get: those whose coordinates are at or next
\* to the lower and the upper bound of the chunk, inside and outside of it.
\* Every edited position is among them.
ReadCoords == {-1, 0, 1, CHUNK_SIZE - 1, CHUNK_SIZE}

ReadPositions == {BlockPos(x, y, z) : x \in ReadCoords, y \in ReadCoords, z \in ReadCoords}

\* The slot of a position in the plain array: each coordinate reduced to
\* [0, CHUNK_SIZE), combined as x + y*S + z*S^2.
SlotOf(pos) ==
    (pos.x % CHUNK_SIZE) + (pos.y % CHUNK_SIZE) * CHUNK_SIZE
        + (pos.z % CHUNK_SIZE) * CHUNK_SIZE * CHUNK_SIZE

ChunkInit ==
    \E block \in Blocks :
        /\ data = fill(block)
        /\ slots = [i \in Slots |-> block]
        /\ ops = 0
        /\ last = [op |-> "fill", pos |-> None, block |-> block, ret |-> FALSE,
                   before |-> fill(block)]

Set(pos, block) ==
    /\ ops < MaxOps
    /\ LET r == set(data, pos, block)
       IN  /\ data' = r.chunk
           /\ last' = [op |-> "set", pos |-> Some(pos), block |-> block, ret |-> r.ret,
                       before |-> data]
    /\ slots' = [slots EXCEPT ![SlotOf(pos)] = block]
    /\ ops' = ops + 1
    /\ UNCHANGED <<pureVars, built, meshVars, schedVars>>

TryConvertToSingle ==
    /\ LET r == try_convert_to_single(data)
       IN  /\ data' = r.chunk
           /\ last' = [op |-> "try_convert_to_single", pos |-> None, block |-> "air",
                       ret |-> r.ret, before |-> data]
    /\ UNCHANGED <<pureVars, slots, ops, built, meshVars, schedVars>>

Init == ChunkInit /\ built = None /\ MeshIdle /\ SchedIdle /\ PureIdle

Next ==
    \/ \E pos \in EditPositions, block \in Blocks : Set(pos, block)
    \/ TryConvertToSingle

Spec == Init /\ [][Next]_vars

\* The logical content of a chunk: the id of each of its TOTAL_BLOCKS slots.
Content(c) == [i \in Slots |-> get_index(c, i)]

AllSlotsEqual(c) == \A i \in Slots : get_index(c, i) = get_index(c, 0)

\* C1: ChunkData reads like a plain array of CHUNK_SIZE^3 slots: after fill(f)
\* and any sets, get(q) is the id last set at the slot of q, or f; a set
\* leaves the value read at every other slot as it was, also when it promotes
\* the chunk.
C1_PlainArray ==
    /\ Content(data) = slots
    /\ \A q \in ReadPositions : get(data, q) = slots[SlotOf(q)]
    /\ last.op = "set" =>
          \A i \in Slots \ {SlotOf(last.pos[1])} :
              get_index(data, i) = get_index(last.before, i)

\* C1 witness: a set on an already promoted chunk, after which three
\* different ids are read from the chunk.
C1_Witness ==
    /\ last.op = "set"
    /\ last.ret
    /\ last.before.kind = "Multiple"
    /\ Cardinality({get(data, q) : q \in ReadPositions}) = 3

\* C2: set returns true exactly when the slot held a different id; a set that
\* returns false leaves the chunk as it was; a Single chunk becomes Multiple
\* only by a set whose id differs from the fill value.
C2_SetResult ==
    /\ last.op = "set" =>
          /\ last.ret <=> (Content(last.before)[SlotOf(last.pos[1])] # last.block)
          /\ ~last.ret => data = last.before
    /\ (last.op \in {"set", "try_convert_to_single"}
          /\ last.before.kind = "Single" /\ data.kind = "Multiple") =>
          (last.op = "set" /\ last.block # last.before.block)

\* C2 witness: a set of the fill value on a Single chunk returned false and
\* the chunk is still Single.
C2_Witness ==
    /\ last.op = "set"
    /\ ~last.ret
    /\ last.before.kind = "Single"
    /\ data.kind = "Single"

\* C3 as stated: try_convert_to_single returns true if and only if every slot
\* holds the same id.
C3_Original ==
    last.op = "try_convert_to_single" => (last.ret <=> AllSlotsEqual(last.before))

\* C3 amended: try_convert_to_single returns true if and only if the chunk is
\* Multiple and every slot holds the same id (on a Single chunk it returns
\* false); the values read by get are the same before and after the call.
C3_ConvertResult ==
    last.op = "try_convert_to_single" =>
        /\ last.ret <=> (last.before.kind = "Multiple" /\ AllSlotsEqual(last.before))
        /\ Content(data) = Content(last.before)
        /\ \A q \in ReadPositions : get(data, q) = get(last.before, q)
        /\ last.ret => data.kind = "Single"
        /\ ~last.ret => data = last.before

\* C3 witness: a Multiple chunk whose slots were all equal was converted.
C3_Witness ==
    /\ last.op = "try_convert_to_single"
    /\ last.ret
    /\ last.before.kind = "Multiple"

\* ------------------------------------------------------------------------
\* SpecBuild: build_models on one chunk
\* ------------------------------------------------------------------------

\* The positions of the set calls that made the chunk: the corner, two
\* adjacent interior cells and the cell of the outer layer next to them.
BuildPositions ==
    {BlockPos(0, 0, 0), BlockPos(1, 1, 1), BlockPos(2, 1, 1), BlockPos(CHUNK_SIZE - 1, 1, 1)}

\* The chunks made by fill and at most k calls of set.
RECURSIVE EditedChunks(_)
EditedChunks(k) ==
    IF k = 0 THEN {fill(block) : block \in Blocks}
    ELSE LET prev == EditedChunks(k - 1)
         IN  prev \cup {set(c, pos, block).chunk :
                           c \in prev, pos \in BuildPositions, block \in Blocks}

BuildInit ==
    /\ PureIdle
    /\ data \in EditedChunks(MaxEdits)
    /\ slots = [i \in Slots |-> "air"]
    /\ ops = 0
    /\ last = [op |-> "idle"]
    /\ built = None
    /\ MeshIdle
    /\ SchedIdle

BuildModels ==
    /\ built = None
    /\ built' = Some([occluded_by |-> BlockDataOccludedBy_from_block_data(data),
                      models |-> build_models(data)])
    /\ UNCHANGED <<pureVars, data, slots, ops, last, meshVars, schedVars>>

BuildNext == BuildModels

SpecBuild == BuildInit /\ [][BuildNext]_vars

\* A position of the chunk, by its coordinates.
InChunk(pos) ==
    /\ pos.x \in 0 .. (CHUNK_SIZE - 1)
    /\ pos.y \in 0 .. (CHUNK_SIZE - 1)
    /\ pos.z \in 0 .. (CHUNK_SIZE - 1)

ChunkPositions ==
    {BlockPos(x, y, z) : x \in 0 .. (CHUNK_SIZE - 1), y \in 0 .. (CHUNK_SIZE - 1),
                         z \in 0 .. (CHUNK_SIZE - 1)}

\* The block stored for a position of the chunk.
BlockAt(pos) == get_index(data, SlotOf(pos))

\* The directions the block of an id occludes: all six for a cube, none for
\* any other shape and for an id without a shape.
OccludesOf(block) == IF block_shapes_get(block) = "Cube" THEN FaceDirection ELSE {}

\* The OccludedBy flags the occlusion pass left for a position.
OccludedByAt(pos) == BlockDataOccludedBy_get(built[1].occluded_by, pos)

\* C4: after the occlusion pass, OccludedBy(p) contains d exactly when p+d
\* lies inside the chunk and the block there occludes the opposite of d; so
\* for A the south neighbour of B, B is occluded from South exactly when A
\* occludes North, and A from North exactly when B occludes South.
C4_OccludedBy ==
    built # None =>
        /\ \A p \in ChunkPositions, d \in FaceDirection :
              (d \in OccludedByAt(p)) <=>
                  (InChunk(shift(p, d, 1)) /\ opposite(d) \in OccludesOf(BlockAt(shift(p, d, 1))))
        /\ \A b \in ChunkPositions :
              LET a == shift(b, "South", 1)
              IN  InChunk(a) =>
                      /\ ("South" \in OccludedByAt(b)) <=> ("North" \in OccludesOf(BlockAt(a)))
                      /\ ("North" \in OccludedByAt(a)) <=> ("South" \in OccludesOf(BlockAt(b)))

\* C4 witness: the pass ran on a chunk with a cube A south of a block B that
\* occludes nothing: B is occluded from South, A is not occluded from North.
C4_Witness ==
    /\ built # None
    /\ \E b \in ChunkPositions :
          LET a == shift(b, "South", 1)
          IN  /\ InChunk(a)
              /\ OccludesOf(BlockAt(a)) = FaceDirection
              /\ OccludesOf(BlockAt(b)) = {}
              /\ "South" \in OccludedByAt(b)
              /\ "North" \notin OccludedByAt(a)

\* C5: after the occlusion pass, every face of a block of the outermost layer
\* that points out of the chunk has its OccludedBy bit clear: positions
\* outside the chunk are read as empty.
C5_BoundaryClear ==
    built # None =>
        \A p \in ChunkPositions, d \in FaceDirection :
            ~InChunk(shift(p, d, 1)) => d \notin OccludedByAt(p)

\* C5 witness: the pass ran on a chunk of cubes; the block at the east edge
\* is occluded from every side but East.
C5_Witness ==
    /\ built # None
    /\ \A i \in Slots : OccludesOf(get_index(data, i)) = FaceDirection
    /\ OccludedByAt(BlockPos(CHUNK_SIZE - 1, 1, 1)) = FaceDirection \ {"East"}

\* The direction of a directional part of a BlockMesh.
DirOf(part) ==
    CASE part = "top" -> "Up"
      [] part = "bottom" -> "Down"
      [] part = "north" -> "North"
      [] part = "south" -> "South"
      [] part = "east" -> "East"
      [] part = "west" -> "West"

\* The faces of a buffer: the block position and part of each of its vertices.
FacesOf(buf) ==
    {<<buf.positions[k].at, buf.positions[k].part>> : k \in DOMAIN buf.positions}

\* The faces build_models produced, over all materials.
BuiltFaces ==
    UNION {FacesOf(built[1].models[m]) : m \in DOMAIN built[1].models}

\* An interior cell: no coordinate at the lower or upper bound of the chunk.
Interior(pos) ==
    /\ pos.x \in 1 .. (CHUNK_SIZE - 2)
    /\ pos.y \in 1 .. (CHUNK_SIZE - 2)
    /\ pos.z \in 1 .. (CHUNK_SIZE - 2)

\* The chunk is grass (an opaque cube) everywhere but for air at the cell c.
GrassButAirAt(c) ==
    \A i \in Slots : get_index(data, i) = IF i = SlotOf(c) THEN "air" ELSE "grass"

\* The six faces of the neighbours of c that touch c.
FacesTouching(c) == {<<shift(c, d, 1), CHOOSE f \in {"top", "bottom", "north", "south", "east", "west"} : DirOf(f) = opposite(d)>> : d \in FaceDirection}

\* The faces of the outermost layer that point out of the chunk, but for
\* those of the cell c.
FacesOutward(c) ==
    {<<p, f>> \in (ChunkPositions \ {c}) \X {"top", "bottom", "north", "south", "east", "west"} :
        ~InChunk(shift(p, DirOf(f), 1))}

\* C7 as stated: in a chunk of opaque cubes with one interior air cell the
\* built geometry has a directional face only for the six faces touching the
\* air cell.
C7_Original ==
    built # None =>
        \A c \in ChunkPositions :
            (Interior(c) /\ GrassButAirAt(c)) => BuiltFaces = FacesTouching(c)

\* C7 amended: in a chunk of opaque cubes with one interior air cell the
\* built geometry has a directional face exactly for the six faces touching
\* the air cell and for the faces of the outermost layer that point out of
\* the chunk; it has no face between two opaque neighbours.
C7_AirCellFaces ==
    built # None =>
        \A c \in ChunkPositions :
            (Interior(c) /\ GrassButAirAt(c)) =>
                /\ BuiltFaces = FacesTouching(c) \cup FacesOutward(c)
                /\ \A face \in BuiltFaces :
                      LET n == shift(face[1], DirOf(face[2]), 1)
                      IN  ~(InChunk(n) /\ BlockAt(n) = "grass")

\* C7 witness: build_models ran on a chunk of grass with one interior air
\* cell and produced the six faces around it.
C7_Witness ==
    /\ built # None
    /\ \E c \in ChunkPositions :
          /\ Interior(c)
          /\ GrassButAirAt(c)
          /\ FacesTouching(c) \subseteq BuiltFaces

\* ------------------------------------------------------------------------
\* SpecMesh: BlockMesh::append_to on one template and one mask
\* ------------------------------------------------------------------------

PartSet == {PartNames[n] : n \in 1 .. 7}

MeshInit ==
    /\ PureIdle
    /\ ChunkIdle
    /\ built = None
    /\ template \in {BlockMeshOf(parts) : parts \in SUBSET PartSet}
    /\ mask \in SUBSET FaceDirection
    /\ mesh = None
    /\ SchedIdle

AppendTo ==
    /\ mesh = None
    /\ mesh' = Some(append_to(template, mask, MeshBuf_new))
    /\ UNCHANGED <<pureVars, chunkVars, built, template, mask, schedVars>>

MeshNext == AppendTo

SpecMesh == MeshInit /\ [][MeshNext]_vars

\* The parts a template must contribute under a mask.
ExpectedParts ==
    {f \in PartSet :
        /\ template[f] # None
        /\ IF f = "center" THEN mask # FaceDirection ELSE DirOf(f) \notin mask}

\* The parts the vertices of a buffer belong to.
PartsIn(buf) == {buf.positions[k].part : k \in DOMAIN buf.positions}

\* C6: append_to appends the center part exactly when it exists and the mask
\* does not hold all six directions, and each directional part exactly when
\* it exists and its own direction is not in the mask; nothing else is
\* appended.
C6_AppendedParts ==
    mesh # None =>
        /\ PartsIn(mesh[1]) = ExpectedParts
        /\ Len(mesh[1].positions) = 4 * Cardinality(ExpectedParts)
        /\ Len(mesh[1].normals) = 4 * Cardinality(ExpectedParts)
        /\ Len(mesh[1].uvs) = 4 * Cardinality(ExpectedParts)
        /\ Len(mesh[1].indices) = 6 * Cardinality(ExpectedParts)

\* C6 witness: a template with all seven parts was appended under a mask of
\* every direction but Up: the center and the top part were appended.
C6_Witness ==
    /\ mesh # None
    /\ \A f \in PartSet : template[f] # None
    /\ mask = FaceDirection \ {"Up"}
    /\ PartsIn(mesh[1]) = {"center", "top"}

\* ------------------------------------------------------------------------
\* SpecSched: the chunk entities, the registry and the command buffers
\* ------------------------------------------------------------------------

\* v >> bits of an i32: the arithmetic shift, which keeps the sign.
ShiftRight(v, bits) ==
    IF v >= 0 THEN v \div (2 ^ bits) ELSE -(((-v) - 1) \div (2 ^ bits)) - 1

\* impl From<BlockPos> for ChunkPos
ChunkPosFrom(pos) ==
    ChunkPos(ShiftRight(pos.x, CHUNK_BITS), ShiftRight(pos.y, CHUNK_BITS),
             ShiftRight(pos.z, CHUNK_BITS))

\* VoxelWorld::get_chunk
get_chunk(self, pos) == IF pos \in DOMAIN self THEN Some(self[pos]) ELSE None

\* NeedsRemeshLater::default
NeedsRemeshLater_default == [priority |-> 0, starvation |-> FALSE]

\* The entities of a query in the order the query yields them: by entity id.
RECURSIVE QueryOrder(_)
QueryOrder(S) ==
    IF S = {} THEN << >>
    ELSE LET first == CHOOSE e \in S : \A o \in S : e <= o
         IN  <<first>> \o QueryOrder(S \ {first})

\* A queued command.  op names the command; entity, pos, later, data and part
\* are its arguments (None where the command has none).
Command(op, entity, pos, later, chunk_data, part) ==
    [op |-> op, entity |-> entity, pos |-> pos, later |-> later, data |-> chunk_data,
     part |-> part]

\* commands.entity(e).insert(NeedsRemesh)
insert_NeedsRemesh(e) == Command("insert NeedsRemesh", e, None, None, None, None)

\* commands.entity(e).insert(NeedsRemeshLater { .. })
insert_NeedsRemeshLater(e, later) ==
    Command("insert NeedsRemeshLater", e, None, Some(later), None, None)

\* commands.entity(e).remove::<NeedsRemesh>()
remove_NeedsRemesh(e) == Command("remove NeedsRemesh", e, None, None, None, None)

\* commands.entity(e).remove::<NeedsRemeshLater>()
remove_NeedsRemeshLater(e) == Command("remove NeedsRemeshLater", e, None, None, None, None)

\* commands.entity(child).despawn_recursive() of a chunk model part
despawn_part(child) == Command("despawn part", child, None, None, None, None)

\* commands.spawn((ChunkModelPart, ..)).set_parent(chunk_id)
spawn_part(chunk_id, model) == Command("spawn part", chunk_id, None, None, None, Some(model))

\* commands.spawn_chunk(pos, data)
spawn_chunk(pos, chunk_data) == Command("spawn_chunk", 0, Some(pos), None, Some(chunk_data), None)

\* commands.despawn_chunk(pos)
despawn_chunk(pos) == Command("despawn_chunk", 0, Some(pos), None, None, None)

\* A function without the key k.
Without(f, k) == [x \in DOMAIN f \ {k} |-> f[x]]

\* The closure of spawn_chunk that spawns a chunk entity whether or not the
\* coordinate holds one.
spawn_chunk_always(w, pos, chunk_data) ==
    LET chunk_id == w.entities + 1
    IN  [w EXCEPT
           !.chunks = (chunk_id :> [pos |-> pos, data |-> chunk_data,
                                    unique_blocks |-> {},
                                    NeedsRemesh |-> TRUE,
                                    NeedsRemeshLater |-> None,
                                    children |-> << >>]) @@ @,
           !.registry = (pos :> chunk_id) @@ Without(@, pos),
           !.entities = chunk_id]

\* The closure queued by spawn_chunk, applied to the world w.
spawn_chunk_apply(w, pos, chunk_data) ==
    LET found == get_chunk(w.registry, pos)
    IN  IF found # None
        THEN IF found[1] \notin DOMAIN w.chunks THEN w
             ELSE [w EXCEPT !.chunks[found[1]].data = chunk_data]
        ELSE LET chunk_id == w.entities + 1
             IN  [w EXCEPT
                    !.chunks = (chunk_id :> [pos |-> pos, data |-> chunk_data,
                                             unique_blocks |-> {},
                                             NeedsRemesh |-> TRUE,
                                             NeedsRemeshLater |-> None,
                                             children |-> << >>]) @@ @,
                    !.registry = (pos :> chunk_id) @@ @,
                    !.entities = chunk_id]

\* The closure queued by despawn_chunk, applied to the world w: the chunk
\* entity goes with its children.
despawn_chunk_apply(w, pos) ==
    LET found == get_chunk(w.registry, pos)
    IN  IF found = None THEN w
        ELSE [w EXCEPT !.chunks = Without(@, found[1]),
                       !.registry = Without(@, pos)]

\* One queued command applied to the world w.  An insert on an entity that
\* was despawned since the command was queued panics, and a part spawned
\* under a despawned chunk has no parent to attach to; a remove or a despawn
\* of a despawned entity does nothing.
apply_command(w, c) ==
    IF w.panicked THEN w
    ELSE IF c.op = "spawn_chunk" THEN spawn_chunk_apply(w, c.pos[1], c.data[1])
    ELSE IF c.op = "despawn_chunk" THEN despawn_chunk_apply(w, c.pos[1])
    ELSE IF c.op = "despawn part"
    THEN [w EXCEPT !.chunks =
            [e \in DOMAIN @ |->
                [@[e] EXCEPT !.children =
                    SelectSeq(@, LAMBDA child : child.id # c.entity)]]]
    ELSE IF c.entity \notin DOMAIN w.chunks
    THEN IF c.op \in {"remove NeedsRemesh", "remove NeedsRemeshLater"} THEN w
         ELSE [w EXCEPT !.panicked = TRUE]
    ELSE IF c.op = "insert NeedsRemesh"
    THEN [w EXCEPT !.chunks[c.entity].NeedsRemesh = TRUE]
    ELSE IF c.op = "insert NeedsRemeshLater"
    THEN [w EXCEPT !.chunks[c.entity].NeedsRemeshLater = c.later]
    ELSE IF c.op = "remove NeedsRemesh"
    THEN [w EXCEPT !.chunks[c.entity].NeedsRemesh = FALSE]
    ELSE IF c.op = "remove NeedsRemeshLater"
    THEN [w EXCEPT !.chunks[c.entity].NeedsRemeshLater = None]
    ELSE [w EXCEPT !.chunks[c.entity].children =
                      Append(@, [id |-> w.entities + 1,
                                 material |-> c.part[1].material,
                                 mesh |-> c.part[1].mesh]),
                   !.entities = @ + 1]

\* The commands of one buffer applied in the order they were queued.
RECURSIVE apply_commands(_, _)
apply_commands(w, cmds) ==
    IF cmds = << >> THEN w
    ELSE CHOOSE out \in {apply_commands(next, Tail(cmds)) :
                             next \in {apply_command(w, Head(cmds))}} : TRUE

\* ------------------------------------------------------------------------
\* SpecSched: the systems of the Update schedule
\* ------------------------------------------------------------------------

\* The elements of a set in the order a HashMap yields them.
RECURSIVE into_iter(_)
into_iter(S) ==
    IF S = {} THEN << >>
    ELSE LET first == CHOOSE x \in S : TRUE
         IN  <<first>> \o into_iter(S \ {first})

\* The keys of the meshes map of build_models: the material of every block
\* of the chunk whose model is Primitive.
model_materials(chunk_data) ==
    {block_models_get(block).material :
        block \in {b \in iter(chunk_data) : block_models_get(b).kind = "Primitive"}}

\* The ChunkModel list build_models returns, one model for each material.
\* The mesh of a model is kept as the chunk data it is built from.
chunk_models(chunk_data) ==
    LET materials == into_iter(model_materials(chunk_data))
    IN  [i \in 1 .. Len(materials) |-> [material |-> materials[i], mesh |-> chunk_data]]

\* The children of a chunk reconciled with models that leaves the children
\* left over in place.
reconcile_no_despawn(c, chunk_id, models) ==
    LET n == Len(models)
        k == Len(c.children)
        reuse == IF n < k THEN n ELSE k
        children == [i \in 1 .. k |->
                        IF i <= reuse
                        THEN [c.children[i] EXCEPT !.mesh = models[n - i + 1].mesh,
                                                   !.material = models[n - i + 1].material]
                        ELSE c.children[i]]
        spawns == [i \in 1 .. (n - reuse) |-> spawn_part(chunk_id, models[n - reuse - i + 1])]
    IN  [chunk |-> [c EXCEPT !.children = children],
         commands |-> <<remove_NeedsRemesh(chunk_id), remove_NeedsRemeshLater(chunk_id)>>
                          \o spawns]

\* The body of the loop of remesh over the dirty chunks, for the chunk c with
\* the entity chunk_id and the models built for it: the markers are removed,
\* the children take the models popped from the end of the list, the
\* children left over are despawned and the models left over are spawned.
reconcile(c, chunk_id, models) ==
    LET n == Len(models)
        k == Len(c.children)
        reuse == IF n < k THEN n ELSE k
        children == [i \in 1 .. k |->
                        IF i <= reuse
                        THEN [c.children[i] EXCEPT !.mesh = models[n - i + 1].mesh,
                                                   !.material = models[n - i + 1].material]
                        ELSE c.children[i]]
        despawns == [i \in 1 .. (k - reuse) |-> despawn_part(c.children[reuse + i].id)]
        spawns == [i \in 1 .. (n - reuse) |-> spawn_part(chunk_id, models[n - reuse - i + 1])]
    IN  [chunk |-> [c EXCEPT !.children = children],
         commands |-> <<remove_NeedsRemesh(chunk_id), remove_NeedsRemeshLater(chunk_id)>>
                          \o despawns \o spawns]

\* The body of the loop of remesh that leaves NeedsRemeshLater on the chunk.
remesh_chunk_keep_later(c, chunk_id) ==
    [chunk |-> c, commands |-> <<remove_NeedsRemesh(chunk_id)>>]

\* The body of the loop with the models build_models returns for the data
\* of the chunk.
remesh_chunk(c, chunk_id) == reconcile(c, chunk_id, chunk_models(c.data))

\* The commands of remesh for the chunks of order, one chunk after another.
RECURSIVE remesh_commands(_, _)
remesh_commands(ch, order) ==
    IF order = << >> THEN << >>
    ELSE remesh_chunk(ch[Head(order)], Head(order)).commands
             \o remesh_commands(ch, Tail(order))

\* remesh: every chunk with NeedsRemesh is rebuilt.
remesh(ch) ==
    LET dirty == {e \in DOMAIN ch : ch[e].NeedsRemesh}
    IN  [chunks |-> [e \in DOMAIN ch |->
                        IF e \in dirty THEN remesh_chunk(ch[e], e).chunk ELSE ch[e]],
         commands |-> remesh_commands(ch, QueryOrder(dirty))]

\* update_block_handles
update_block_handles(ch) ==
    [e \in DOMAIN ch |->
        IF ch[e].NeedsRemesh THEN [ch[e] EXCEPT !.unique_blocks = iter(ch[e].data)]
        ELSE ch[e]]

\* The inner loop of on_block_model_updated for one changed block, over the
\* chunks of order.
RECURSIVE mark_chunks(_, _, _)
mark_chunks(ch, block_id, order) ==
    IF order = << >> THEN << >>
    ELSE (IF block_id \in ch[Head(order)].unique_blocks
          THEN <<insert_NeedsRemeshLater(Head(order), NeedsRemeshLater_default)>>
          ELSE << >>)
             \o mark_chunks(ch, block_id, Tail(order))

\* The chunks the query of on_block_model_updated yields.
unmarked_chunks(ch) ==
    {e \in DOMAIN ch : ~ch[e].NeedsRemesh /\ ch[e].NeedsRemeshLater = None}

\* The outer loop of on_block_model_updated over the changed blocks.
RECURSIVE mark_blocks(_, _, _)
mark_blocks(ch, block_ids, chunk_ids) ==
    IF block_ids = << >> THEN << >>
    ELSE mark_chunks(ch, Head(block_ids), QueryOrder(chunk_ids))
             \o mark_blocks(ch, Tail(block_ids), chunk_ids)

\* on_block_model_updated with a query that yields every chunk.
on_block_model_updated_unfiltered(ch, block_ids) ==
    mark_blocks(ch, block_ids, DOMAIN ch)

\* on_block_model_updated: the commands it queues for the changed blocks.
on_block_model_updated(ch, block_ids) ==
    mark_blocks(ch, block_ids, unmarked_chunks(ch))

\* NeedsRemeshLater::cmp is not greater: a is ordered at or before b.
cmp_le(a, b) == a.priority <= b.priority

\* sort of the queued chunks by their NeedsRemeshLater: a stable sort, each
\* chunk placed behind the chunks that compare less or equal.
RECURSIVE sort(_, _)
sort(order, ch) ==
    IF order = << >> THEN << >>
    ELSE LET n == Len(order)
             rest == sort(SubSeq(order, 1, n - 1), ch)
             e == order[n]
         IN  SelectSeq(rest, LAMBDA o : cmp_le(ch[o].NeedsRemeshLater[1],
                                                ch[e].NeedsRemeshLater[1]))
                 \o <<e>>
                 \o SelectSeq(rest, LAMBDA o : ~cmp_le(ch[o].NeedsRemeshLater[1],
                                                       ch[e].NeedsRemeshLater[1]))

\* The chunks the queued_chunks query of check_remesh_later yields.
queued_chunks(ch) == QueryOrder({e \in DOMAIN ch : ch[e].NeedsRemeshLater # None})

\* check_remesh_later promoting the chunk that sorts last.
check_remesh_later_last(ch) ==
    IF \E e \in DOMAIN ch : ch[e].NeedsRemesh THEN << >>
    ELSE LET sorted == sort(queued_chunks(ch), ch)
         IN  IF sorted = << >> THEN << >>
             ELSE <<remove_NeedsRemeshLater(sorted[Len(sorted)]),
                    insert_NeedsRemesh(sorted[Len(sorted)])>>

\* check_remesh_later: the commands it queues.
check_remesh_later(ch) ==
    IF \E e \in DOMAIN ch : ch[e].NeedsRemesh THEN << >>
    ELSE LET sorted == sort(queued_chunks(ch), ch)
         IN  IF sorted = << >> THEN << >>
             ELSE <<remove_NeedsRemeshLater(sorted[1]), insert_NeedsRemesh(sorted[1])>>

\* The least and the greatest value of the priority.
I32_MIN == -(2 ^ (I32_BITS - 1))

I32_MAX == 2 ^ (I32_BITS - 1) - 1

\* priority -= 1 in a build without overflow checks: the least value wraps
\* to the greatest.
wrapping_sub(v) == IF v = I32_MIN THEN I32_MAX ELSE v - 1

\* priority -= 1 overflows for a chunk of ch: a build with overflow checks
\* panics there.
sub_overflows(ch) ==
    \E e \in DOMAIN ch :
        /\ ch[e].NeedsRemeshLater # None
        /\ ch[e].NeedsRemeshLater[1].starvation
        /\ ch[e].NeedsRemeshLater[1].priority = I32_MIN

\* remesh_queue_starvation
remesh_queue_starvation(ch) ==
    [e \in DOMAIN ch |->
        IF ch[e].NeedsRemeshLater # None /\ ch[e].NeedsRemeshLater[1].starvation
        THEN [ch[e] EXCEPT !.NeedsRemeshLater[1].priority = wrapping_sub(@)]
        ELSE ch[e]]

\* place_block for one Primary click whose target is target_pos, with block
\* selected in the hotbar.
place_block(ch, reg, target_pos, block) ==
    LET chunk_id == get_chunk(reg, ChunkPosFrom(target_pos))
    IN  IF chunk_id = None
        THEN [chunks |-> ch,
              commands |-> <<spawn_chunk(ChunkPosFrom(target_pos),
                                         set(fill("air"), target_pos, block).chunk)>>]
        ELSE IF chunk_id[1] \notin DOMAIN ch THEN [chunks |-> ch, commands |-> << >>]
        ELSE [chunks |-> [ch EXCEPT ![chunk_id[1]].data = set(@, target_pos, block).chunk],
              commands |-> <<insert_NeedsRemesh(chunk_id[1])>>]

\* remove_block for one Secondary click on the block at hit_block.  dirty is
\* the result of set, emptied the result of try_convert_to_single.
remove_block(ch, reg, hit_block) ==
    LET chunk_id == get_chunk(reg, ChunkPosFrom(hit_block))
        nothing == [chunks |-> ch, commands |-> << >>, dirty |-> FALSE, emptied |-> FALSE]
    IN  IF chunk_id = None THEN nothing
        ELSE IF chunk_id[1] \notin DOMAIN ch THEN nothing
        ELSE LET edit == set(ch[chunk_id[1]].data, hit_block, "air")
                 dirty == edit.ret
                 convert == try_convert_to_single(edit.chunk)
             IN  IF ~dirty
                 THEN [chunks |-> [ch EXCEPT ![chunk_id[1]].data = edit.chunk],
                       commands |-> << >>, dirty |-> FALSE, emptied |-> FALSE]
                 ELSE [chunks |-> [ch EXCEPT ![chunk_id[1]].data = convert.chunk],
                       commands |-> IF convert.ret
                                    THEN <<despawn_chunk(ChunkPosFrom(hit_block))>>
                                    ELSE <<insert_NeedsRemesh(chunk_id[1])>>,
                       dirty |-> TRUE, emptied |-> convert.ret]

\* ------------------------------------------------------------------------
\* SpecSched: the ticks of the Update schedule
\* ------------------------------------------------------------------------

\* The systems of the Update schedule that read or write chunks.
Systems ==
    {"remesh", "update_block_handles", "on_block_model_updated", "check_remesh_later",
     "remesh_queue_starvation", "remove_block", "place_block"}

\* The systems that read or write ChunkData, UniqueBlocks or the geometry.
\* They share no data with check_remesh_later and remesh_queue_starvation,
\* which share the priorities: the order between the two groups cannot be
\* observed, and the model runs the first group first.
EditGroup ==
    {"remove_block", "place_block", "remesh", "update_block_handles",
     "on_block_model_updated"}

\* The Block entities with a BlockModel, in the order their query yields them.
BlockEntities == <<"air", "grass", "statue">>

\* The blocks whose BlockModel is rebuilt after the setup.
RebuiltBlocks == {"grass", "statue"}

\* The blocks the hotbar holds.
HotbarBlocks == {"statue"}

\* The blocks hit by a Secondary click: a block of the floor of the first
\* chunk and the cell next to the floor in the chunk to the east.
RemovePositions == {BlockPos(1, 0, 1), BlockPos(CHUNK_SIZE, 0, 1)}

\* The targets of a Primary click: the cell above the floor of the first
\* chunk and the cell next to the floor in the chunk to the east.
PlacePositions == {BlockPos(1, 1, 1), BlockPos(CHUNK_SIZE, 0, 1)}

\* The NeedsRemeshLater values a caller of the component inserts.
LaterValues ==
    {[priority |-> 0, starvation |-> FALSE], [priority |-> 1, starvation |-> TRUE],
     [priority |-> I32_MIN, starvation |-> TRUE]}

\* The loop of map::setup over the floor of the chunk: n cells are still to
\* be set.
RECURSIVE setup_floor(_, _)
setup_floor(chunk_data, n) ==
    IF n = 0 THEN chunk_data
    ELSE LET x == (n - 1) \div CHUNK_SIZE
             z == (n - 1) % CHUNK_SIZE
             next == set(chunk_data, BlockPos(x, 0, z), "grass").chunk
         IN  IF next.kind = "Single" THEN setup_floor(chunk_data, n - 1)
             ELSE setup_floor(next, n - 1)

\* The world of a tick: the chunk entities, the registry and the entity
\* counter, as the commands see them.
World(ch, reg, count) ==
    [chunks |-> ch, registry |-> reg, entities |-> count, panicked |-> FALSE]

EmptyWorld == World([e \in {} |-> e], [p \in {} |-> p], 0)

\* The world after map::setup and the commands it queued.
setup ==
    apply_commands(EmptyWorld,
        <<spawn_chunk(ChunkPos(0, 0, 0),
                      setup_floor(fill("air"), CHUNK_SIZE * CHUNK_SIZE))>>)

\* What the systems of a tick record: the click each edit system handled,
\* what check_remesh_later and on_block_model_updated saw and queued, and
\* the chunks remesh rebuilt.
ObsNone ==
    [remove |-> None, place |-> None, check |-> None, mark |-> None, remeshed |-> None,
     starve |-> None]

\* The markers of the chunk entities.
Markers(ch) ==
    [e \in DOMAIN ch |-> [NeedsRemesh |-> ch[e].NeedsRemesh,
                          NeedsRemeshLater |-> ch[e].NeedsRemeshLater]]

SchedInit ==
    /\ PureIdle
    /\ ChunkIdle
    /\ built = None
    /\ MeshIdle
    /\ chunks = setup.chunks
    /\ registry = setup.registry
    /\ entities = setup.entities
    /\ changed = {BlockEntities[i] : i \in DOMAIN BlockEntities}
    /\ ran = {}
    /\ buffers = [s \in Systems |-> << >>]
    /\ obs = ObsNone
    /\ log = None
    /\ tick = 0
    /\ clicks = 0
    /\ panicked = FALSE
    /\ frame = None

\* The systems other than the edit systems, in the order the model runs
\* those that have nothing to do.
IdleOrder ==
    <<"remesh", "update_block_handles", "on_block_model_updated",
      "remesh_queue_starvation", "check_remesh_later">>

\* The system has nothing to do in the current tick, whenever in the tick it
\* runs: its query is empty.  The markers do not change during a tick.
Idle(system) ==
    CASE system \in {"remesh", "update_block_handles"} ->
             \A e \in DOMAIN chunks : ~chunks[e].NeedsRemesh
      [] system = "on_block_model_updated" -> changed = {}
      [] system = "remesh_queue_starvation" ->
             \A e \in DOMAIN chunks :
                 chunks[e].NeedsRemeshLater = None
                     \/ ~chunks[e].NeedsRemeshLater[1].starvation
      [] OTHER -> FALSE

\* A system may run: the tick is open, the system has not run in it, and
\* the systems of the first group have run before one of the second runs.
\* A system with nothing to do changes nothing wherever it runs: the model
\* runs such systems before the others of their group, in IdleOrder.
MayRun(system) ==
    /\ ~panicked
    /\ tick < MaxTicks
    /\ system \notin ran
    /\ system \notin EditGroup => EditGroup \subseteq ran
    /\ \A i \in DOMAIN IdleOrder :
          LET other == IdleOrder[i]
          IN  (/\ other # system
               /\ other \notin ran
               /\ Idle(other)
               /\ (other \in EditGroup) = (system \in EditGroup)
               /\ system \notin {"remove_block", "place_block"})
              => /\ Idle(system)
                 /\ \E j \in DOMAIN IdleOrder : IdleOrder[j] = system /\ j < i

otherVars == <<chunkVars, built, meshVars, frame, pureVars>>

Remesh ==
    /\ MayRun("remesh")
    /\ LET r == remesh(chunks)
       IN  /\ chunks' = r.chunks
           /\ buffers' = [buffers EXCEPT !["remesh"] = r.commands]
    /\ obs' = [obs EXCEPT !.remeshed = Some({e \in DOMAIN chunks : chunks[e].NeedsRemesh})]
    /\ ran' = ran \cup {"remesh"}
    /\ log' = None
    /\ UNCHANGED <<registry, entities, changed, tick, clicks, panicked, otherVars>>

UpdateBlockHandles ==
    /\ MayRun("update_block_handles")
    /\ chunks' = update_block_handles(chunks)
    /\ ran' = ran \cup {"update_block_handles"}
    /\ log' = None
    /\ UNCHANGED <<registry, entities, changed, buffers, obs, tick, clicks, panicked,
                   otherVars>>

OnBlockModelUpdated ==
    /\ MayRun("on_block_model_updated")
    /\ LET block_ids == SelectSeq(BlockEntities, LAMBDA b : b \in changed)
           commands == on_block_model_updated(chunks, block_ids)
       IN  /\ buffers' = [buffers EXCEPT !["on_block_model_updated"] = commands]
           /\ obs' = [obs EXCEPT !.mark = Some([blocks |-> changed,
                                                unique |-> [e \in DOMAIN chunks |->
                                                               chunks[e].unique_blocks],
                                                commands |-> commands])]
    /\ changed' = {}
    /\ ran' = ran \cup {"on_block_model_updated"}
    /\ log' = None
    /\ UNCHANGED <<chunks, registry, entities, tick, clicks, panicked, otherVars>>

CheckRemeshLater ==
    /\ MayRun("check_remesh_later")
    /\ LET commands == check_remesh_later(chunks)
       IN  /\ buffers' = [buffers EXCEPT !["check_remesh_later"] = commands]
           /\ obs' = [obs EXCEPT !.check = Some([queued |-> [e \in {o \in DOMAIN chunks :
                                                     chunks[o].NeedsRemeshLater # None} |->
                                                     chunks[e].NeedsRemeshLater[1].priority],
                                                 commands |-> commands])]
    /\ ran' = ran \cup {"check_remesh_later"}
    /\ log' = None
    /\ UNCHANGED <<chunks, registry, entities, changed, tick, clicks, panicked, otherVars>>

\* remesh_queue_starvation in a build with or without overflow checks; the
\* two builds differ when a priority overflows.
RemeshQueueStarvation(overflow_checks) ==
    /\ MayRun("remesh_queue_starvation")
    /\ overflow_checks => sub_overflows(chunks)
    /\ IF overflow_checks
       THEN panicked' = TRUE /\ UNCHANGED chunks
       ELSE panicked' = FALSE /\ chunks' = remesh_queue_starvation(chunks)
    /\ obs' = [obs EXCEPT !.starve =
                  Some([e \in {o \in DOMAIN chunks : chunks[o].NeedsRemeshLater # None} |->
                           chunks[e].NeedsRemeshLater[1]])]
    /\ ran' = ran \cup {"remesh_queue_starvation"}
    /\ log' = None
    /\ UNCHANGED <<registry, entities, changed, buffers, tick, clicks, otherVars>>

\* remove_block and place_block in a tick without a click: both read no
\* event and do nothing, wherever in the tick they run; the model runs them
\* first.
NoClick ==
    /\ MayRun("remove_block")
    /\ MayRun("place_block")
    /\ ran = {}
    /\ ran' = ran \cup {"remove_block", "place_block"}
    /\ log' = None
    /\ UNCHANGED <<chunks, registry, entities, changed, buffers, obs, tick, clicks, panicked,
                   otherVars>>

\* remove_block in a tick with one Secondary click on the block at hit_block.
\* place_block, which is ordered after remove_block, skips the click.
RemoveBlock(hit_block) ==
    /\ MayRun("remove_block")
    /\ MayRun("place_block")
    /\ clicks < MaxClicks
    /\ LET r == remove_block(chunks, registry, hit_block)
       IN  /\ chunks' = r.chunks
           /\ buffers' = [buffers EXCEPT !["remove_block"] = r.commands]
           /\ obs' = [obs EXCEPT !.remove = Some([pos |-> hit_block,
                                                  chunk |-> get_chunk(registry,
                                                                ChunkPosFrom(hit_block)),
                                                  dirty |-> r.dirty,
                                                  emptied |-> r.emptied,
                                                  commands |-> r.commands])]
    /\ ran' = ran \cup {"remove_block", "place_block"}
    /\ clicks' = clicks + 1
    /\ log' = None
    /\ UNCHANGED <<registry, entities, changed, tick, panicked, otherVars>>

\* place_block in a tick with one Primary click whose target is target_pos.
\* remove_block, which is ordered before place_block, skips the click.
PlaceBlock(target_pos, block) ==
    /\ MayRun("remove_block")
    /\ MayRun("place_block")
    /\ clicks < MaxClicks
    /\ LET r == place_block(chunks, registry, target_pos, block)
       IN  /\ chunks' = r.chunks
           /\ buffers' = [buffers EXCEPT !["place_block"] = r.commands]
           /\ obs' = [obs EXCEPT !.place = Some([pos |-> target_pos,
                                                 chunk |-> get_chunk(registry,
                                                               ChunkPosFrom(target_pos)),
                                                 commands |-> r.commands])]
    /\ ran' = ran \cup {"remove_block", "place_block"}
    /\ clicks' = clicks + 1
    /\ log' = None
    /\ UNCHANGED <<registry, entities, changed, tick, panicked, otherVars>>

\* The orders the buffers of a tick are applied in: every order of the
\* systems that queued commands in which remove_block precedes place_block.
ApplyOrders ==
    LET queued == {s \in Systems : buffers[s] # << >>}
        n == Cardinality(queued)
    IN  {order \in [1 .. n -> queued] :
            /\ \A i, j \in 1 .. n : order[i] = order[j] => i = j
            /\ \A i, j \in 1 .. n :
                  (order[i] = "place_block" /\ order[j] = "remove_block") => j < i}

\* The world after the buffers of the first k systems of order are applied.
RECURSIVE apply_buffers(_, _, _)
apply_buffers(w, order, k) ==
    IF k = 0 THEN w
    ELSE apply_commands(apply_buffers(w, order, k - 1), buffers[order[k]])

\* The markers before and after the buffer of a system is applied, or None
\* when the system queued nothing.
StepOf(w, order, system) ==
    IF \A k \in 1 .. Len(order) : order[k] # system THEN None
    ELSE LET k == CHOOSE i \in 1 .. Len(order) : order[i] = system
         IN  Some([before |-> Markers(apply_buffers(w, order, k - 1).chunks),
                   after |-> Markers(apply_buffers(w, order, k).chunks),
                   panicked |-> apply_buffers(w, order, k).panicked])

\* The end of the tick: the buffers are applied to the world.
ApplyDeferred(order) ==
    /\ ~panicked
    /\ ran = Systems
    /\ LET w == World(chunks, registry, entities)
           after == apply_buffers(w, order, Len(order))
       IN  /\ chunks' = after.chunks
           /\ registry' = after.registry
           /\ entities' = after.entities
           /\ panicked' = after.panicked
           /\ log' = Some([pre |-> Markers(chunks),
                           obs |-> obs,
                           mark_step |-> StepOf(w, order, "on_block_model_updated"),
                           remesh_step |-> StepOf(w, order, "remesh"),
                           post |-> Markers(after.chunks)])
    /\ ran' = {}
    /\ buffers' = [s \in Systems |-> << >>]
    /\ obs' = ObsNone
    /\ tick' = tick + 1
    /\ UNCHANGED <<changed, clicks, otherVars>>

\* update_block_model gives the block a new BlockModel between two ticks.
UpdateBlockModel(block) ==
    /\ ~panicked
    /\ tick < MaxTicks
    /\ ran = {}
    /\ block \notin changed
    /\ changed' = changed \cup {block}
    /\ log' = None
    /\ UNCHANGED <<chunks, registry, entities, ran, buffers, obs, tick, clicks, panicked,
                   otherVars>>

\* A caller inserts NeedsRemeshLater on a chunk without markers between two
\* ticks.
QueueRemeshLater(chunk_id, later) ==
    /\ ~panicked
    /\ tick < MaxTicks
    /\ ran = {}
    /\ chunk_id \in unmarked_chunks(chunks)
    /\ chunks' = [chunks EXCEPT ![chunk_id].NeedsRemeshLater = Some(later)]
    /\ log' = None
    /\ UNCHANGED <<registry, entities, changed, ran, buffers, obs, tick, clicks, panicked,
                   otherVars>>

SchedNext ==
    \/ Remesh
    \/ UpdateBlockHandles
    \/ OnBlockModelUpdated
    \/ CheckRemeshLater
    \/ \E overflow_checks \in BOOLEAN : RemeshQueueStarvation(overflow_checks)
    \/ NoClick
    \/ \E hit_block \in RemovePositions : RemoveBlock(hit_block)
    \/ \E target_pos \in PlacePositions, block \in HotbarBlocks : PlaceBlock(target_pos, block)
    \/ \E order \in ApplyOrders : ApplyDeferred(order)
    \/ \E block \in RebuiltBlocks : UpdateBlockModel(block)
    \/ \E chunk_id \in DOMAIN chunks, later \in LaterValues : QueueRemeshLater(chunk_id, later)

SpecSched == SchedInit /\ [][SchedNext]_vars

\* ------------------------------------------------------------------------
\* SpecSched: the markers after a tick
\* ------------------------------------------------------------------------

\* The chunk holds no marker in the markers m.
Unmarked(m, e) == ~m[e].NeedsRemesh /\ m[e].NeedsRemeshLater = None

\* The chunk an edit of the last tick was made in, with the commands the
\* edit queued: a placement into an existing chunk, or a removal that
\* changed a slot and did not empty the chunk.
LastEdits ==
    IF log = None THEN {}
    ELSE (IF log[1].obs.place # None /\ log[1].obs.place[1].chunk # None
          THEN {[chunk |-> log[1].obs.place[1].chunk[1],
                 commands |-> log[1].obs.place[1].commands]}
          ELSE {})
         \cup
         (IF /\ log[1].obs.remove # None
             /\ log[1].obs.remove[1].dirty
             /\ ~log[1].obs.remove[1].emptied
          THEN {[chunk |-> log[1].obs.remove[1].chunk[1],
                 commands |-> log[1].obs.remove[1].commands]}
          ELSE {})

\* C8 as stated: a placement into an existing chunk, or a removal that does
\* not empty its chunk, queues NeedsRemesh for that chunk and nothing else,
\* and the chunk holds NeedsRemesh when the tick of the edit is over.
C8_MarkedBeforeNextTick ==
    \A edit \in LastEdits :
        /\ edit.commands = <<insert_NeedsRemesh(edit.chunk)>>
        /\ edit.chunk \in DOMAIN log[1].post
        /\ log[1].post[edit.chunk].NeedsRemesh

\* The chunks on_block_model_updated has to mark in the last tick: those
\* without a marker whose UniqueBlocks held a changed block when it ran.
MarkTargets ==
    {e \in DOMAIN log[1].pre :
        /\ Unmarked(log[1].pre, e)
        /\ log[1].obs.mark[1].unique[e] \cap log[1].obs.mark[1].blocks # {}}

\* C9: when block models change, on_block_model_updated queues
\* NeedsRemeshLater with priority 0 and starvation false for exactly the
\* chunks that hold no marker and whose UniqueBlocks contains a changed block.
\* Applying what it queued gives these chunks that marker and leaves every
\* other chunk (one that holds NeedsRemesh or NeedsRemeshLater, one whose
\* UniqueBlocks lacks the block) with its marker, priority and starvation
\* flag as they were; the marked chunks still there when the tick is over are
\* NeedsRemeshLater with priority 0 and starvation false.
C9_MarkDirty ==
    log # None =>
        LET l == log[1]
            m == l.obs.mark[1]
        IN  /\ {m.commands[i] : i \in DOMAIN m.commands}
                  = {insert_NeedsRemeshLater(e, NeedsRemeshLater_default) : e \in MarkTargets}
            /\ (l.mark_step = None) <=> (MarkTargets = {})
            /\ l.mark_step # None =>
                  LET step == l.mark_step[1]
                  IN  ~step.panicked =>
                         /\ DOMAIN step.after = DOMAIN step.before
                         /\ \A e \in DOMAIN step.after :
                               IF e \in MarkTargets
                               THEN /\ step.after[e].NeedsRemeshLater
                                          = Some([priority |-> 0, starvation |-> FALSE])
                                    /\ step.after[e].NeedsRemesh = step.before[e].NeedsRemesh
                               ELSE step.after[e] = step.before[e]
            /\ ~panicked =>
                  \A e \in MarkTargets \cap DOMAIN l.post :
                      l.post[e].NeedsRemeshLater = Some([priority |-> 0, starvation |-> FALSE])

\* C9 witness: in the last tick a chunk without a marker was marked
\* NeedsRemeshLater with priority 0 while another chunk, which held a marker,
\* kept it.
C9_Witness ==
    /\ log # None
    /\ ~panicked
    /\ \E e \in MarkTargets :
          /\ e \in DOMAIN log[1].post
          /\ log[1].post[e].NeedsRemeshLater = Some([priority |-> 0, starvation |-> FALSE])
    /\ \E o \in DOMAIN log[1].pre \ MarkTargets :
          /\ ~Unmarked(log[1].pre, o)
          /\ log[1].obs.mark[1].unique[o] \cap log[1].obs.mark[1].blocks # {}
          /\ o \in DOMAIN log[1].post
          /\ log[1].post[o].NeedsRemeshLater = log[1].pre[o].NeedsRemeshLater

\* The chunks queued in the last tick, and those promoted by it: queued
\* without NeedsRemesh before the tick, NeedsRemesh and not queued after it.
QueuedBefore == {e \in DOMAIN log[1].pre : log[1].pre[e].NeedsRemeshLater # None}

Promoted ==
    {e \in QueuedBefore \cap DOMAIN log[1].post :
        /\ ~log[1].pre[e].NeedsRemesh
        /\ log[1].post[e].NeedsRemesh
        /\ log[1].post[e].NeedsRemeshLater = None}

\* The queued chunk that comes first: its priority, as check_remesh_later
\* read it, is the lowest, and among the chunks of that priority it is the
\* first the query yields.
FirstQueued(e) ==
    LET seen == log[1].obs.check[1].queued
    IN  \A o \in DOMAIN seen :
            \/ seen[e] < seen[o]
            \/ seen[e] = seen[o] /\ e <= o

\* C10: in each tick, if no chunk holds NeedsRemesh and some chunk is
\* queued, check_remesh_later promotes exactly one chunk, the queued chunk of
\* the lowest priority (the first in query order among equal priorities); if
\* a chunk holds NeedsRemesh, or none is queued, it promotes none.  At most
\* one chunk goes from NeedsRemeshLater to NeedsRemesh in a tick.  (A
\* promoted chunk that an edit of the same tick despawns is gone after the
\* tick.)
C10_Promotion ==
    log # None =>
        LET l == log[1]
            k == l.obs.check[1]
            dirty == \E e \in DOMAIN l.pre : l.pre[e].NeedsRemesh
        IN  /\ DOMAIN k.queued = QueuedBefore
            /\ Cardinality(Promoted) <= 1
            /\ IF dirty \/ QueuedBefore = {}
               THEN k.commands = << >> /\ Promoted = {}
               ELSE \E e \in QueuedBefore :
                       /\ FirstQueued(e)
                       /\ k.commands = <<remove_NeedsRemeshLater(e), insert_NeedsRemesh(e)>>
                       /\ Promoted \subseteq {e}
                       /\ (~panicked /\ e \in DOMAIN l.post) => Promoted = {e}

\* C10 witness: two chunks were queued with the same priority and no chunk
\* held NeedsRemesh; the first of the two was promoted and the other is
\* still queued.
C10_Witness ==
    /\ log # None
    /\ ~panicked
    /\ \A e \in DOMAIN log[1].pre : ~log[1].pre[e].NeedsRemesh
    /\ Cardinality(QueuedBefore) = 2
    /\ \E e \in QueuedBefore, o \in QueuedBefore :
          /\ e < o
          /\ log[1].obs.check[1].queued[e] = log[1].obs.check[1].queued[o]
          /\ Promoted = {e}
          /\ o \in DOMAIN log[1].post
          /\ log[1].post[o].NeedsRemeshLater # None
          /\ ~log[1].post[o].NeedsRemesh

\* ------------------------------------------------------------------------
\* SpecSched: the markers after a remesh pass
\* ------------------------------------------------------------------------

\* The chunks remesh processed in the last tick.
Remeshed == log[1].obs.remeshed[1]

\* C11: when the commands of a remesh pass have been applied, every chunk
\* the pass processed holds neither NeedsRemesh nor NeedsRemeshLater.  (A
\* processed chunk that an edit of the same tick despawned is gone.)
C11_RemeshClears ==
    (log # None /\ log[1].remesh_step # None) =>
        LET step == log[1].remesh_step[1]
        IN  ~step.panicked =>
                \A e \in Remeshed \cap DOMAIN step.after : Unmarked(step.after, e)

\* C11 witness: remesh processed a chunk that held both markers, and the
\* chunk holds none after the commands of the pass.
C11_Witness ==
    /\ log # None
    /\ log[1].remesh_step # None
    /\ ~log[1].remesh_step[1].panicked
    /\ \E e \in Remeshed \cap DOMAIN log[1].remesh_step[1].after :
          /\ log[1].remesh_step[1].before[e].NeedsRemesh
          /\ log[1].remesh_step[1].before[e].NeedsRemeshLater # None
          /\ Unmarked(log[1].remesh_step[1].after, e)

\* C12 as stated: no chunk holds NeedsRemesh and NeedsRemeshLater at the
\* same time.
C12_AtMostOneMarker ==
    \A e \in DOMAIN chunks :
        ~(chunks[e].NeedsRemesh /\ chunks[e].NeedsRemeshLater # None)

\* ------------------------------------------------------------------------
\* SpecSched: the priorities of the queued chunks
\* ------------------------------------------------------------------------

\* The NeedsRemeshLater of the queued chunks before remesh_queue_starvation
\* ran in the last tick.
StarveBefore == log[1].obs.starve[1]

\* The chunks that were queued before the last tick and are queued after it.
StayedQueued ==
    {e \in DOMAIN StarveBefore \cap DOMAIN log[1].post :
        log[1].post[e].NeedsRemeshLater # None}

\* C13 as stated: over a tick, the priority of a chunk that stays queued with
\* the starving flag set goes down by exactly one, and the priority of a
\* queued chunk whose starving flag is not set does not change.
C13_StarvationDecay ==
    log # None =>
        \A e \in StayedQueued :
            LET before == StarveBefore[e]
                after == log[1].post[e].NeedsRemeshLater[1]
            IN  /\ after.starvation = before.starvation
                /\ IF before.starvation
                   THEN after.priority = before.priority - 1
                   ELSE after.priority = before.priority

\* ------------------------------------------------------------------------
\* SpecLive: the Update schedule running without end, one tick in one step
\* ------------------------------------------------------------------------

\* The sequences that hold each element of S once.
RECURSIVE Perms(_)
Perms(S) ==
    IF S = {} THEN {<< >>}
    ELSE UNION {{<<x>> \o p : p \in Perms(S \ {x})} : x \in S}

\* The orders the systems of a tick run in, up to the order of systems that
\* share no data.  remove_block runs before place_block, and one of the two
\* writes the chunk data that remesh and update_block_handles read, so the
\* two run before, between or after these; on_block_model_updated reads the
\* UniqueBlocks of the chunks without NeedsRemesh, which no other system
\* writes.  check_remesh_later reads the priorities remesh_queue_starvation
\* writes.
TickOrders ==
    {first \o <<"on_block_model_updated">> \o second :
        first \in {<<"remove_block", "place_block", "remesh", "update_block_handles">>,
                   <<"remesh", "remove_block", "place_block", "update_block_handles">>,
                   <<"update_block_handles", "remove_block", "place_block", "remesh">>,
                   <<"remesh", "update_block_handles", "remove_block", "place_block">>},
        second \in Perms(Systems \ EditGroup)}

\* The orders the buffers of a tick are applied in, up to the order of
\* buffers whose commands commute: the commands of remesh are applied before
\* or after those of the edit.  The commands of on_block_model_updated and
\* check_remesh_later are on chunks that hold no NeedsRemesh when the tick
\* begins, or on other components than those of remesh and the edit.
TickApplyOrders ==
    {<<"remove_block", "place_block", "remesh", "on_block_model_updated",
       "check_remesh_later">>,
     <<"remesh", "remove_block", "place_block", "on_block_model_updated",
       "check_remesh_later">>}

\* A click: the button, the block position it resolves to and the block
\* selected in the hotbar.
Click(button, pos, block) == Some([button |-> button, pos |-> pos, block |-> block])

\* The target of the Primary clicks of SpecLive: the cell next to the floor
\* in the chunk to the east.
LivePlacePositions == {BlockPos(CHUNK_SIZE, 0, 1)}

\* The click of a tick of SpecLive: none, or a Primary click on the target.
\* The user of SpecLive only places blocks.
LiveClicks ==
    {None} \cup {Click("Primary", target_pos, block) :
                    target_pos \in LivePlacePositions, block \in HotbarBlocks}

\* One system run on the chunks, the buffers and the changed blocks of st.
run_system(st, system, reg, click) ==
    CASE system = "remesh" ->
             LET r == remesh(st.chunks)
             IN  [st EXCEPT !.chunks = r.chunks, !.buffers["remesh"] = r.commands]
      [] system = "update_block_handles" ->
             [st EXCEPT !.chunks = update_block_handles(st.chunks)]
      [] system = "on_block_model_updated" ->
             [st EXCEPT !.buffers["on_block_model_updated"] =
                            on_block_model_updated(st.chunks,
                                SelectSeq(BlockEntities, LAMBDA b : b \in st.changed)),
                        !.changed = {}]
      [] system = "check_remesh_later" ->
             [st EXCEPT !.buffers["check_remesh_later"] = check_remesh_later(st.chunks)]
      [] system = "remesh_queue_starvation" ->
             [st EXCEPT !.chunks = remesh_queue_starvation(st.chunks)]
      [] system = "place_block" /\ click # None /\ click[1].button = "Primary" ->
             LET r == place_block(st.chunks, reg, click[1].pos, click[1].block)
             IN  [st EXCEPT !.chunks = r.chunks, !.buffers["place_block"] = r.commands]
      [] system = "remove_block" /\ click # None /\ click[1].button = "Secondary" ->
             LET r == remove_block(st.chunks, reg, click[1].pos)
             IN  [st EXCEPT !.chunks = r.chunks, !.buffers["remove_block"] = r.commands]
      [] OTHER -> st

\* The systems of order run one after another.
RECURSIVE run_systems(_, _, _, _)
run_systems(st, order, reg, click) ==
    IF order = << >> THEN st
    ELSE CHOOSE out \in {run_systems(next, Tail(order), reg, click) :
                             next \in {run_system(st, Head(order), reg, click)}} : TRUE

\* The buffers bufs of the systems of order applied to the world w.
RECURSIVE apply_all(_, _, _)
apply_all(w, bufs, order) ==
    IF order = << >> THEN w
    ELSE CHOOSE out \in {apply_all(next, bufs, Tail(order)) :
                             next \in {apply_commands(w, bufs[Head(order)])}} : TRUE

\* The tick of the frame f on the world w with the changed blocks block_ids:
\* the systems run in the order of f, then their buffers are applied.
run_tick(w, block_ids, f) ==
    CHOOSE out \in
        {[ran |-> st,
          after |-> apply_all([w EXCEPT !.chunks = st.chunks], st.buffers, f.apply_order)] :
            st \in {run_systems([chunks |-> w.chunks,
                                 buffers |-> [s \in Systems |-> << >>],
                                 changed |-> block_ids],
                                f.order, w.registry, f.click)}} : TRUE

\* The order and the input of a tick.  Without a click, or when no chunk
\* holds NeedsRemesh, remesh and update_block_handles or the edit systems do
\* nothing wherever they run, and one order stands for all.
Frame(order, click, apply_order, overflow_checks) ==
    [order |-> order, click |-> click, apply_order |-> apply_order,
     overflow_checks |-> overflow_checks]

FrameChosen(order, click, apply_order) ==
    (click = None \/ \A e \in DOMAIN chunks : ~chunks[e].NeedsRemesh) =>
        /\ order[1] = "remove_block" /\ order[3] = "remesh"
        /\ apply_order[1] = "remove_block"

\* A tick begins: the schedule fixes the order of the systems and of the
\* buffers, and the click of the tick is read.  The build has overflow
\* checks or not; the two builds differ when a priority overflows.
LiveBegin(order, click, apply_order, overflow_checks) ==
    /\ ~panicked
    /\ frame = None
    /\ FrameChosen(order, click, apply_order)
    /\ overflow_checks => sub_overflows(chunks)
    /\ frame' = Some(Frame(order, click, apply_order, overflow_checks))
    /\ UNCHANGED <<pureVars, chunks, registry, entities, changed, ran, buffers, obs, log, tick,
                   clicks, panicked, chunkVars, built, meshVars>>

\* The tick begun runs.  A build with overflow checks panics in
\* remesh_queue_starvation when a priority overflows.
LiveTick ==
    /\ frame # None
    /\ IF frame[1].overflow_checks
       THEN /\ panicked' = TRUE
            /\ UNCHANGED <<chunks, registry, entities, changed>>
       ELSE \E r \in {run_tick(World(chunks, registry, entities), changed, frame[1])} :
                /\ chunks' = r.after.chunks
                /\ registry' = r.after.registry
                /\ entities' = r.after.entities
                /\ panicked' = r.after.panicked
                /\ changed' = r.ran.changed
    /\ frame' = None
    /\ UNCHANGED <<pureVars, ran, buffers, obs, log, tick, clicks, chunkVars, built, meshVars>>

\* update_block_model gives the block a new BlockModel between two ticks.
LiveUpdateBlockModel(block) ==
    /\ ~panicked
    /\ frame = None
    /\ block \notin changed
    /\ changed' = changed \cup {block}
    /\ UNCHANGED <<chunks, registry, entities, ran, buffers, obs, log, tick, clicks,
                   panicked, otherVars>>

\* A caller inserts NeedsRemeshLater on a chunk without markers between two
\* ticks.
LiveQueueRemeshLater(chunk_id, later) ==
    /\ ~panicked
    /\ frame = None
    /\ chunk_id \in unmarked_chunks(chunks)
    /\ chunks' = [chunks EXCEPT ![chunk_id].NeedsRemeshLater = Some(later)]
    /\ UNCHANGED <<registry, entities, changed, ran, buffers, obs, log, tick, clicks,
                   panicked, otherVars>>

LiveBegins ==
    \E order \in TickOrders, click \in LiveClicks, apply_order \in TickApplyOrders,
       overflow_checks \in BOOLEAN :
        LiveBegin(order, click, apply_order, overflow_checks)

LiveNext ==
    \/ LiveBegins
    \/ LiveTick
    \/ \E block \in RebuiltBlocks : LiveUpdateBlockModel(block)
    \/ \E chunk_id \in DOMAIN chunks, later \in LaterValues :
          LiveQueueRemeshLater(chunk_id, later)

\* The schedule begins a tick whenever none is running.
SpecLive == SchedInit /\ [][LiveNext]_vars /\ WF_vars(LiveBegins)

\* The chunk at the coordinate pos is queued with the starving flag set.
StarvingAt(pos) ==
    /\ pos \in DOMAIN registry
    /\ registry[pos] \in DOMAIN chunks
    /\ chunks[registry[pos]].NeedsRemeshLater # None
    /\ chunks[registry[pos]].NeedsRemeshLater[1].starvation

\* The chunk at the coordinate pos is not queued: it was promoted (or
\* remeshed, or despawned).
NotQueuedAt(pos) ==
    \/ pos \notin DOMAIN registry
    \/ registry[pos] \notin DOMAIN chunks
    \/ chunks[registry[pos]].NeedsRemeshLater = None

\* The coordinates of the chunks of SpecLive.
LivePositions == {ChunkPos(0, 0, 0)} \cup {ChunkPosFrom(pos) : pos \in LivePlacePositions}

\* C14 as stated: in every execution in which ticks keep occurring (a tick
\* begins whenever none is running, and every tick begun runs to its end),
\* every chunk that is queued with the starving flag set is eventually
\* promoted.
C14_EventuallyPromoted ==
    ([]<>(frame = None)) =>
        \A pos \in LivePositions : StarvingAt(pos) ~> NotQueuedAt(pos)

\* ------------------------------------------------------------------------
\* SpecEdit: placements and removals, one click in a tick
\* ------------------------------------------------------------------------

\* The clicks of SpecEdit: a Secondary click on a block of the floor of the
\* first chunk, on the air above it and on the cell next to the floor in the
\* chunk to the east, and a Primary click whose target is that cell, with
\* grass or a block of a custom model selected.
EditClicks ==
    {None,
     Click("Secondary", BlockPos(1, 0, 1), "air"),
     Click("Secondary", BlockPos(1, 1, 1), "air"),
     Click("Secondary", BlockPos(CHUNK_SIZE, 0, 1), "air")}
        \cup {Click("Primary", BlockPos(CHUNK_SIZE, 0, 1), block) :
                 block \in {"grass"} \cup HotbarBlocks}

\* No chunk is queued in SpecEdit: one order of check_remesh_later and
\* remesh_queue_starvation stands for both.
EditOrders == {order \in TickOrders : order[6] = "remesh_queue_starvation"}

EditBegin(order, click, apply_order) ==
    /\ ~panicked
    /\ frame = None
    /\ tick < MaxFrames
    /\ FrameChosen(order, click, apply_order)
    /\ frame' = Some(Frame(order, click, apply_order, FALSE))
    /\ UNCHANGED <<pureVars, chunks, registry, entities, changed, ran, buffers, obs, log, tick,
                   clicks, panicked, chunkVars, built, meshVars>>

\* The tick begun runs; log keeps the click, the chunks before the tick, the
\* chunks and the buffers when the systems have run, and the chunks remesh
\* processed.
EditTick ==
    /\ frame # None
    /\ \E r \in {run_tick(World(chunks, registry, entities), changed, frame[1])} :
           /\ chunks' = r.after.chunks
           /\ registry' = r.after.registry
           /\ entities' = r.after.entities
           /\ panicked' = r.after.panicked
           /\ changed' = r.ran.changed
           /\ log' = Some([click |-> frame[1].click,
                           before |-> chunks,
                           registry |-> registry,
                           ran |-> r.ran.chunks,
                           buffers |-> r.ran.buffers,
                           remeshed |-> {e \in DOMAIN chunks : chunks[e].NeedsRemesh}])
    /\ frame' = None
    /\ tick' = tick + 1
    /\ UNCHANGED <<pureVars, ran, buffers, obs, clicks, chunkVars, built, meshVars>>

EditNext ==
    \/ \E order \in EditOrders, click \in EditClicks, apply_order \in TickApplyOrders :
          EditBegin(order, click, apply_order)
    \/ EditTick

SpecEdit == SchedInit /\ [][EditNext]_vars

\* Every slot of the chunk data holds air.
OnlyAir(chunk_data) == \A i \in Slots : get_index(chunk_data, i) = "air"

\* The chunk the Secondary click of the last tick hit, or None.
RemovedFrom ==
    IF log = None \/ log[1].click = None THEN None
    ELSE IF log[1].click[1].button # "Secondary" THEN None
    ELSE get_chunk(log[1].registry, ChunkPosFrom(log[1].click[1].pos))

\* C15 as stated: a removal that leaves only air in its chunk despawns the
\* chunk and does not mark it; a removal that changes nothing queues
\* nothing; no command of remesh is applied to a despawned chunk; and when a
\* tick is over no loaded chunk consists only of air.
C15_EmptyChunkDespawned ==
    /\ ~panicked
    /\ frame = None => \A e \in DOMAIN chunks : ~OnlyAir(chunks[e].data)
    /\ RemovedFrom # None =>
          LET e == RemovedFrom[1]
              pos == log[1].click[1].pos
              commands == log[1].buffers["remove_block"]
          IN  /\ get(log[1].before[e].data, pos) = "air" => commands = << >>
              /\ (get(log[1].before[e].data, pos) # "air" /\ OnlyAir(log[1].ran[e].data)) =>
                    /\ commands = <<despawn_chunk(ChunkPosFrom(pos))>>
                    /\ e \notin DOMAIN chunks
              /\ (get(log[1].before[e].data, pos) # "air" /\ ~OnlyAir(log[1].ran[e].data)) =>
                    commands = <<insert_NeedsRemesh(e)>>
    /\ (log # None /\ log[1].click # None /\ log[1].click[1].button = "Secondary"
            /\ RemovedFrom = None) =>
          log[1].buffers["remove_block"] = << >>

\* The chunks that hold neither NeedsRemesh nor NeedsRemeshLater.  A chunk
\* is spawned with NeedsRemesh and only the commands of remesh remove it, so
\* these chunks have been remeshed.
RemeshedUnmarked == unmarked_chunks(chunks)

\* C22 as stated: the UniqueBlocks of a chunk that has been remeshed and
\* holds no marker is the set of the block ids iter() yields on the
\* ChunkData the chunk holds now.
C22_UniqueBlocksCurrent ==
    \A e \in RemeshedUnmarked : chunks[e].unique_blocks = iter(chunks[e].data)

\* The parts of the chunk c show the models build_models makes from the
\* data the chunk holds now: one part for each material, its mesh built
\* from that data.
GeometryCurrent(c) ==
    /\ {c.children[i].material : i \in DOMAIN c.children} = model_materials(c.data)
    /\ Len(c.children) = Cardinality(model_materials(c.data))
    /\ \A i \in DOMAIN c.children : c.children[i].mesh = c.data

\* C28 as stated: an edit of a chunk in the tick in which the chunk is
\* remeshed is not lost; in every state a loaded chunk that holds no marker
\* has geometry built from the block data it holds now.
C28_EditsNotLost ==
    ~panicked => \A e \in RemeshedUnmarked : GeometryCurrent(chunks[e])

\* ------------------------------------------------------------------------
\* SpecWorld: spawn_chunk and despawn_chunk applied to the VoxelWorld
\* ------------------------------------------------------------------------

\* The coordinates the commands are given.
WorldPositions == {ChunkPos(0, 0, 0), ChunkPos(1, 0, 0), ChunkPos(-1, 0, 0)}

\* The block data spawn_chunk is given.
WorldData == {fill("air"), fill("grass"), set(fill("air"), BlockPos(1, 1, 1), "statue").chunk}

\* VoxelWorld::default: no chunk.  obs holds the last command applied for
\* each coordinate.
WorldInit ==
    /\ PureIdle
    /\ ChunkIdle
    /\ built = None
    /\ MeshIdle
    /\ chunks = << >>
    /\ registry = << >>
    /\ entities = 0
    /\ changed = {}
    /\ ran = {}
    /\ buffers = << >>
    /\ obs = [pos \in WorldPositions |-> "none"]
    /\ log = None
    /\ tick = 0
    /\ clicks = 0
    /\ panicked = FALSE
    /\ frame = None

\* One command applied to the world; log keeps the command and the world
\* before it.
WorldCommand(c) ==
    /\ tick < MaxCommands
    /\ LET w == World(chunks, registry, entities)
           after == apply_command(w, c)
       IN  /\ chunks' = after.chunks
           /\ registry' = after.registry
           /\ entities' = after.entities
           /\ panicked' = after.panicked
           /\ log' = Some([command |-> c, before |-> w])
    /\ obs' = [obs EXCEPT ![c.pos[1]] = c.op]
    /\ tick' = tick + 1
    /\ UNCHANGED <<changed, ran, buffers, clicks, otherVars>>

\* commands.spawn_chunk(pos, data), applied
SpawnChunk(pos, chunk_data) == WorldCommand(spawn_chunk(pos, chunk_data))

\* commands.despawn_chunk(pos), applied
DespawnChunk(pos) == WorldCommand(despawn_chunk(pos))

WorldNext ==
    \/ \E pos \in WorldPositions, chunk_data \in WorldData : SpawnChunk(pos, chunk_data)
    \/ \E pos \in WorldPositions : DespawnChunk(pos)

SpecWorld == WorldInit /\ [][WorldNext]_vars

\* C16: get_chunk(c) returns a handle exactly when the last command on the
\* coordinate c was a spawn_chunk; every chunk entity is the handle of its
\* own coordinate and of no other; spawn_chunk on a coordinate that holds a
\* chunk keeps the handle and replaces the block data, and despawn_chunk on
\* a coordinate without a chunk changes nothing.
C16_Registry ==
    /\ \A pos \in WorldPositions :
          /\ (get_chunk(registry, pos) # None) <=> (obs[pos] = "spawn_chunk")
          /\ get_chunk(registry, pos) # None =>
                /\ registry[pos] \in DOMAIN chunks
                /\ chunks[registry[pos]].pos = pos
    /\ DOMAIN registry \subseteq WorldPositions
    /\ \A e \in DOMAIN chunks : get_chunk(registry, chunks[e].pos) = Some(e)
    /\ ~panicked
    /\ log # None =>
          LET c == log[1].command
              before == log[1].before
              held == get_chunk(before.registry, c.pos[1])
          IN  /\ (c.op = "spawn_chunk" /\ held # None) =>
                    /\ registry = before.registry
                    /\ entities = before.entities
                    /\ chunks = [before.chunks EXCEPT ![held[1]].data = c.data[1]]
              /\ (c.op = "spawn_chunk" /\ held = None) =>
                    /\ DOMAIN chunks = DOMAIN before.chunks \cup {registry[c.pos[1]]}
                    /\ registry[c.pos[1]] \notin DOMAIN before.chunks
                    /\ chunks[registry[c.pos[1]]].data = c.data[1]
                    /\ \A e \in DOMAIN before.chunks : chunks[e] = before.chunks[e]
              /\ (c.op = "despawn_chunk" /\ held = None) =>
                    /\ registry = before.registry
                    /\ chunks = before.chunks
                    /\ entities = before.entities
              /\ (c.op = "despawn_chunk" /\ held # None) =>
                    /\ DOMAIN chunks = DOMAIN before.chunks \ {held[1]}
                    /\ \A e \in DOMAIN chunks : chunks[e] = before.chunks[e]

\* C16 witness: spawn_chunk was applied to a coordinate that held a chunk
\* with other block data, after a despawn_chunk on a coordinate without a
\* chunk left the world as it was.
C16_Witness ==
    /\ log # None
    /\ log[1].command.op = "spawn_chunk"
    /\ get_chunk(log[1].before.registry, log[1].command.pos[1]) # None
    /\ log[1].before.chunks[registry[log[1].command.pos[1]]].data # log[1].command.data[1]
    /\ \E pos \in WorldPositions : obs[pos] = "despawn_chunk" /\ pos \notin DOMAIN registry

\* ------------------------------------------------------------------------
\* SpecRay: a VoxelIterator cast along +X
\* ------------------------------------------------------------------------

\* The f32 values of the iterator: a finite value as its double n2 (every
\* value here is a multiple of one half), the infinities and NaN.
Fin(n2) == [kind |-> "fin", n2 |-> n2]

Inf == [kind |-> "inf"]

NegInf == [kind |-> "-inf"]

NaN == [kind |-> "nan"]

\* The greatest integer below which every integer is an f32.
F32_EXACT == 2 ^ F32_MANTISSA_DIGITS

\* a < b on f32: false when either is NaN.
f32_lt(a, b) ==
    CASE a.kind = "nan" \/ b.kind = "nan" -> FALSE
      [] a.kind = "-inf" -> b.kind # "-inf"
      [] a.kind = "inf" -> FALSE
      [] b.kind = "-inf" -> FALSE
      [] b.kind = "inf" -> TRUE
      [] OTHER -> a.n2 < b.n2

\* a > b on f32.
f32_gt(a, b) == f32_lt(b, a)

\* a + b on f32, for a and b that are infinite, NaN or non-negative
\* integers: the sum of two integers is rounded to the nearest f32, ties to
\* the even mantissa.
f32_add(a, b) ==
    CASE a.kind = "nan" \/ b.kind = "nan" -> NaN
      [] a.kind = "inf" -> IF b.kind = "-inf" THEN NaN ELSE Inf
      [] a.kind = "-inf" -> IF b.kind = "inf" THEN NaN ELSE NegInf
      [] b.kind \in {"inf", "-inf"} -> b
      [] OTHER ->
           LET n == (a.n2 + b.n2) \div 2
           IN  IF n <= F32_EXACT \/ n % 2 = 0 THEN Fin(2 * n)
               ELSE IF (n - 1) % 4 = 0 THEN Fin(2 * (n - 1))
               ELSE Fin(2 * (n + 1))

\* A component of the direction of a ray along +X: one, or a zero with its
\* sign.
DirOne == [v |-> 1, neg |-> FALSE]

DirZero(neg) == [v |-> 0, neg |-> neg]

\* f32::signum as an integer: 1 for +0.0, -1 for -0.0.
signum(c) == IF c.neg THEN -1 ELSE 1

\* step / dir of one axis: a zero of the sign of step gives +infinity.
t_delta_of(c) == IF c.v = 0 THEN Inf ELSE Fin(2 * signum(c))

\* intbound(s, ds) for an integer s: ds < 0.0 is false for 1.0 and for both
\* zeros, g is 0, and the result is 1.0 / ds.
intbound(s, ds) ==
    IF ds.v = 1 THEN Fin(2)
    ELSE IF ds.neg THEN NegInf ELSE Inf

\* BlockPos::from_vec3 of a point with integer coordinates.
BlockPos_from_vec3(point) == BlockPos(point.x, point.y, point.z)

\* IVec3 to FaceDirection (TryFrom<IVec3>).
FaceOf(x, y, z) ==
    CASE <<x, y, z>> = <<0, 1, 0>> -> "Up"
      [] <<x, y, z>> = <<0, -1, 0>> -> "Down"
      [] <<x, y, z>> = <<0, 0, -1>> -> "North"
      [] <<x, y, z>> = <<0, 0, 1>> -> "South"
      [] <<x, y, z>> = <<1, 0, 0>> -> "East"
      [] <<x, y, z>> = <<-1, 0, 0>> -> "West"

\* VoxelIterator::new(point, dir).with_max_distance(max_distance) for a
\* direction of length one.
VoxelIterator_new(point, dir, max_distance) ==
    [block |-> BlockPos_from_vec3(point),
     step |-> [a \in {"x", "y", "z"} |-> signum(dir[a])],
     t_max |-> [a \in {"x", "y", "z"} |-> intbound(point[a], dir[a])],
     t_delta |-> [a \in {"x", "y", "z"} |-> t_delta_of(dir[a])],
     face |-> None,
     max_distance |-> max_distance]

\* The iterator after a step along the axis a.
advance(it, a) ==
    [it EXCEPT
        !.max_distance = IF f32_gt(it.t_max[a], it.max_distance) THEN Fin(-2) ELSE @,
        !.block[a] = @ + it.step[a],
        !.t_max[a] = f32_add(@, it.t_delta[a]),
        !.face = Some(FaceOf(IF a = "x" THEN -it.step.x ELSE 0,
                             IF a = "y" THEN -it.step.y ELSE 0,
                             IF a = "z" THEN -it.step.z ELSE 0))]

\* Iterator::next: the item returned, and the iterator afterwards.  The
\* region of the iterator is all of i32, which the blocks of SpecRay stay
\* far inside of.
VoxelIterator_next(it) ==
    IF f32_lt(it.max_distance, Fin(0)) THEN [item |-> None, it |-> it]
    ELSE [item |-> Some([block |-> it.block, face |-> it.face]),
          it |-> IF f32_lt(it.t_max.x, it.t_max.y)
                 THEN IF f32_lt(it.t_max.x, it.t_max.z) THEN advance(it, "x")
                      ELSE advance(it, "z")
                 ELSE IF f32_lt(it.t_max.y, it.t_max.z) THEN advance(it, "y")
                      ELSE advance(it, "z")]

\* The origins of the rays: points with integer coordinates.
RayOrigins == {[x |-> 0, y |-> 0, z |-> 0], [x |-> -2, y |-> 1, z |-> 3]}

\* The directions along +X: (1, 0, 0) with either sign of each zero.
RayDirections ==
    {[x |-> DirOne, y |-> DirZero(ny), z |-> DirZero(nz)] : ny, nz \in BOOLEAN}

\* The maximum distances, doubled: the multiples of one half below
\* F32_EXACT / 2, the integers up to F32_EXACT and the even integers up to
\* twice that are f32 values.
RayDistances ==
    {n2 \in 0 .. 4 * F32_EXACT :
        \/ n2 < F32_EXACT
        \/ n2 <= 2 * F32_EXACT /\ n2 % 2 = 0
        \/ n2 % 4 = 0}

\* The number of items SpecRay takes from one iterator.
MaxCells == 2 * F32_EXACT + 2

RayInit ==
    /\ ChunkIdle
    /\ built = None
    /\ MeshIdle
    /\ SchedIdle
    /\ probe = None
    /\ final = None
    /\ queue = None
    /\ \E point \in RayOrigins, dir \in RayDirections, n2 \in RayDistances :
          ray = Some([point |-> point, dir |-> dir, d2 |-> n2,
                      it |-> VoxelIterator_new(point, dir, Fin(n2)),
                      cells |-> << >>,
                      done |-> FALSE])

\* One call of next on the iterator.
RayStep ==
    /\ ~ray[1].done
    /\ Len(ray[1].cells) < MaxCells
    /\ LET r == VoxelIterator_next(ray[1].it)
       IN  ray' = Some([ray[1] EXCEPT
                          !.it = r.it,
                          !.cells = IF r.item = None THEN @ ELSE Append(@, r.item[1]),
                          !.done = (r.item = None)])
    /\ UNCHANGED <<chunkVars, built, meshVars, schedVars, probe, final, queue>>

RayNext == RayStep

SpecRay == RayInit /\ [][RayNext]_vars

\* C17 as stated: along +X from a point with integer coordinates, the cells
\* returned have consecutive x from the x of the origin and the y and z of
\* the origin, the first has no face and the others the West face, and
\* floor(d) + 1 cells are returned in all.
C17_PlusXTraversal ==
    LET r == ray[1]
        count == r.d2 \div 2 + 1
    IN  /\ \A i \in DOMAIN r.cells :
              /\ r.cells[i].block = BlockPos(r.point.x + i - 1, r.point.y, r.point.z)
              /\ r.cells[i].face = IF i = 1 THEN None ELSE Some("West")
        /\ Len(r.cells) <= count
        /\ r.done => Len(r.cells) = count

\* a <= b on f32: false when either is NaN.
f32_le(a, b) ==
    /\ a.kind # "nan"
    /\ b.kind # "nan"
    /\ ~f32_lt(b, a)

Axes == {"x", "y", "z"}

\* The axes along which the block of the iterator after differs from the
\* block of the iterator before.
SteppedAxes(before, after) == {a \in Axes : after.block[a] # before.block[a]}

\* The face through which a step of delta along the axis a enters a cell:
\* the one opposite to the step.
EntryFace(a, delta) ==
    CASE a = "x" -> IF delta > 0 THEN "West" ELSE "East"
      [] a = "y" -> IF delta > 0 THEN "Down" ELSE "Up"
      [] a = "z" -> IF delta > 0 THEN "North" ELSE "South"

\* C24 as stated: a call of next that returns a cell moves the block of the
\* iterator by one unit along one axis, an axis whose t_max is the smallest
\* of the three, and the face kept for the next cell is the one opposite to
\* the step; the first cell returned is the cell of the origin with no
\* face; and once the t_max of a step has exceeded the maximum distance no
\* further cell is returned.
C24_StepAlongSmallest ==
    [][(RayStep /\ Len(ray'[1].cells) > Len(ray[1].cells)) =>
          LET before == ray[1].it
              after == ray'[1].it
          IN  /\ \E a \in Axes :
                    /\ SteppedAxes(before, after) = {a}
                    /\ after.block[a] - before.block[a] \in {-1, 1}
                    /\ \A b \in Axes : f32_le(before.t_max[a], before.t_max[b])
                    /\ after.face = Some(EntryFace(a, after.block[a] - before.block[a]))
                    /\ f32_gt(before.t_max[a], Fin(ray[1].d2)) =>
                          VoxelIterator_next(after).item = None
              /\ ray'[1].cells[1] = [block |-> BlockPos_from_vec3(ray[1].point), face |-> None]
      ]_vars

\* ------------------------------------------------------------------------
\* SpecQuery: one get or set at a position inside or outside of the chunk
\* ------------------------------------------------------------------------

\* The chunks queried: uniform ones, and an air chunk with one grass block
\* in the cell the position west of the chunk wraps to.
QueryData ==
    {fill("air"), fill("grass"),
     set(fill("air"), BlockPos(CHUNK_SIZE - 1, 0, 0), "grass").chunk}

QueryInit ==
    /\ data \in QueryData
    /\ slots = [i \in Slots |-> "air"]
    /\ ops = 0
    /\ last = [op |-> "idle"]
    /\ built = None
    /\ MeshIdle
    /\ SchedIdle
    /\ ray = None
    /\ probe = None
    /\ final = None
    /\ queue = None

\* ChunkData::get, BlockDataOccludes::get and BlockDataOccludedBy::get at
\* pos, on the chunk and on the occlusion maps made from it.
QueryGet(pos) ==
    /\ probe = None
    /\ probe' = Some([op |-> "get", pos |-> pos, before |-> data,
                      block |-> get(data, pos),
                      occludes |->
                          BlockDataOccludes_get(BlockDataOccludes_from_block_data(data), pos),
                      occluded_by |->
                          BlockDataOccludedBy_get(
                              BlockDataOccludedBy_from_block_data(data), pos)])
    /\ UNCHANGED <<chunkVars, built, meshVars, schedVars, ray, final, queue>>

\* ChunkData::set at pos.
QuerySet(pos, block) ==
    /\ probe = None
    /\ LET r == set(data, pos, block)
       IN  /\ data' = r.chunk
           /\ probe' = Some([op |-> "set", pos |-> pos, before |-> data,
                             block |-> block, ret |-> r.ret])
    /\ UNCHANGED <<slots, ops, last, built, meshVars, schedVars, ray, final, queue>>

QueryNext ==
    \/ \E pos \in ReadPositions : QueryGet(pos)
    \/ \E pos \in ReadPositions, block \in Blocks : QuerySet(pos, block)

SpecQuery == QueryInit /\ [][QueryNext]_vars

\* The call of the state was at a position outside of the chunk.
QueriedOutside == probe # None /\ ~InChunk(probe[1].pos)

\* C18 as stated: a query at a position outside of the chunk returns no
\* occlusion flags from the occlusion maps and the empty block from the
\* chunk data, and a set there changes no slot of the chunk.
C18_OutsideNeutral ==
    QueriedOutside =>
        /\ probe[1].op = "get" =>
              /\ probe[1].occludes = {}
              /\ probe[1].occluded_by = {}
              /\ probe[1].block = "air"
        /\ probe[1].op = "set" => Content(data) = Content(probe[1].before)

\* C18 amended: outside of the chunk the occlusion maps return no flags;
\* the chunk data wraps each coordinate into the chunk: get returns the block
\* of the slot the position wraps to, and set writes that slot and no other,
\* and returns whether the block there changed.
C18_OutsideWraps ==
    QueriedOutside =>
        LET before == probe[1].before
            slot == SlotOf(probe[1].pos)
        IN  /\ probe[1].op = "get" =>
                  /\ probe[1].occludes = {}
                  /\ probe[1].occluded_by = {}
                  /\ probe[1].block = get_index(before, slot)
            /\ probe[1].op = "set" =>
                  /\ Content(data) = [Content(before) EXCEPT ![slot] = probe[1].block]
                  /\ probe[1].ret = (get_index(before, slot) # probe[1].block)

\* C18 witness: a get outside of the chunk whose position wraps to a slot
\* with a grass block that occludes and is occluded: the occlusion maps
\* returned nothing, the chunk data returned the grass.
C18_Witness ==
    /\ QueriedOutside
    /\ probe[1].op = "get"
    /\ probe[1].block = "grass"
    /\ probe[1].occludes = {}
    /\ BlockDataOccludes_from_block_data(probe[1].before)[index(probe[1].pos)] # {}
    /\ BlockDataOccludedBy_from_block_data(probe[1].before)[index(probe[1].pos)] # {}

\* ------------------------------------------------------------------------
\* SpecPos: the chunk and the index of block positions
\* ------------------------------------------------------------------------

\* The coordinates at and next to the least and the greatest value of the
\* width, zero, and the bounds of the chunks next to zero.
PosCoords ==
    {POS_MIN, POS_MIN + 1, -CHUNK_SIZE - 1, -CHUNK_SIZE, -1, 0, 1, CHUNK_SIZE - 1,
     CHUNK_SIZE, POS_MAX - 1, POS_MAX}

\* The positions: every such x, y in two chunks, z in one.
PosPositions ==
    {BlockPos(x, y, z) : x \in PosCoords, y \in {0, 1, POS_MAX}, z \in {0, 1}}

PosInit ==
    /\ ChunkIdle
    /\ built = None
    /\ MeshIdle
    /\ SchedIdle
    /\ ray = None
    /\ probe = None
    /\ final = None
    /\ queue = None

\* ChunkPos::from, index and index_no_wrap of the positions p and q, and
\* p.is_in_bounds of the chunk of q.  The build has overflow checks or not;
\* the two builds differ when is_in_bounds overflows.
PosProbe(p, q, overflow_checks) ==
    /\ probe = None
    /\ overflow_checks => is_in_bounds_overflows(ChunkPosFrom(q))
    /\ probe' = Some([p |-> p, q |-> q,
                      chunk_p |-> ChunkPosFrom(p),
                      chunk_q |-> ChunkPosFrom(q),
                      index_p |-> index(p),
                      index_q |-> index(q),
                      no_wrap |-> index_no_wrap(p),
                      in_bounds |-> IF overflow_checks THEN None
                                    ELSE Some(is_in_bounds(p, ChunkPosFrom(q))),
                      panicked |-> overflow_checks])
    /\ UNCHANGED <<chunkVars, built, meshVars, schedVars, ray, final, queue>>

PosNext == \E p \in PosPositions, q \in PosPositions, overflow_checks \in BOOLEAN :
              PosProbe(p, q, overflow_checks)

SpecPos == PosInit /\ [][PosNext]_vars

\* C19 as stated: the chunk of a position is the floor of each coordinate
\* over CHUNK_SIZE and the index is x mod S + (y mod S) * S + (z mod S) * S^2
\* with the non-negative mod; the index lies in [0, S^3), two positions of
\* one chunk with one index are the same, chunk * S + local coordinate is
\* the coordinate; is_in_bounds(p, c) holds exactly when c is the chunk of
\* p, and index_no_wrap(p) is defined exactly when p is in chunk (0, 0, 0).
C19_ChunkAndIndex ==
    probe # None =>
        LET r == probe[1]
        IN  /\ \A a \in {"x", "y", "z"} :
                  /\ r.chunk_p[a] = r.p[a] \div CHUNK_SIZE
                  /\ r.chunk_p[a] * CHUNK_SIZE + (r.p[a] % CHUNK_SIZE) = r.p[a]
            /\ r.index_p = (r.p.x % CHUNK_SIZE) + (r.p.y % CHUNK_SIZE) * CHUNK_SIZE
                               + (r.p.z % CHUNK_SIZE) * CHUNK_SIZE * CHUNK_SIZE
            /\ r.index_p \in 0 .. (TOTAL_BLOCKS - 1)
            /\ (r.chunk_p = r.chunk_q /\ r.index_p = r.index_q) => r.p = r.q
            /\ ~r.panicked
            /\ r.in_bounds = Some(r.chunk_p = r.chunk_q)
            /\ (r.no_wrap # None) <=> (r.chunk_p = ChunkPos(0, 0, 0))
            /\ r.no_wrap # None => r.no_wrap = Some(r.index_p)

\* ------------------------------------------------------------------------
\* SpecAppend: parts appended to one MeshBuf
\* ------------------------------------------------------------------------

\* A BlockMeshPart of count vertices with the given indices.
Part(name, count, indices) ==
    [vertices |-> [k \in 1 .. count |->
                      [position |-> <<name, k>>, normal |-> name, uv |-> k]],
     indices |-> indices]

\* The parts appended: a quad, a triangle, a part without vertices, a vertex
\* that no index names, and a part with an index that names none of its
\* vertices.
TemplateParts ==
    {Part("quad", 4, <<0, 1, 2, 0, 2, 3>>),
     Part("triangle", 3, <<0, 1, 2>>),
     Part("empty", 0, << >>),
     Part("vertex", 1, << >>),
     Part("open", 2, <<0, 1, 2>>)}

AppendInit ==
    /\ ChunkIdle
    /\ built = None
    /\ template = BlockMeshOf({})
    /\ mask = {}
    /\ mesh = Some(MeshBuf_new)
    /\ SchedIdle
    /\ ray = None
    /\ probe = << >>
    /\ final = None
    /\ queue = None

\* part.append_to(&mut mesh)
AppendPart(part) ==
    /\ Len(probe) < MaxAppends
    /\ mesh' = Some(BlockMeshPart_append_to(part, mesh[1]))
    /\ probe' = Append(probe, [part |-> part, vertices |-> Len(mesh[1].positions)])
    /\ UNCHANGED <<chunkVars, built, template, mask, schedVars, ray, final, queue>>

AppendNext == \E part \in TemplateParts : AppendPart(part)

SpecAppend == AppendInit /\ [][AppendNext]_vars

\* The indices of the first n parts appended, each raised by the number of
\* vertices the buffer held before the part.
RECURSIVE RebasedIndices(_)
RebasedIndices(n) ==
    IF n = 0 THEN << >>
    ELSE RebasedIndices(n - 1)
            \o [k \in DOMAIN probe[n].part.indices |->
                   probe[n].part.indices[k] + probe[n].vertices]

\* The number of vertices of the first n parts appended.
RECURSIVE VerticesOf(_)
VerticesOf(n) ==
    IF n = 0 THEN 0 ELSE VerticesOf(n - 1) + Len(probe[n].part.vertices)

\* Every index of every part appended names a vertex of the part.
PartsClosed ==
    \A n \in DOMAIN probe :
        \A k \in DOMAIN probe[n].part.indices :
            probe[n].part.indices[k] < Len(probe[n].part.vertices)

\* C20: after any appends of parts to a buffer, the positions, normals and
\* uvs have one length, the indices are those of the parts in order, each
\* raised by the number of vertices the buffer held before its part; and if
\* every index of every part names a vertex of its part, every index of the
\* buffer names a vertex of the buffer.
C20_IndicesRebased ==
    LET buf == mesh[1]
    IN  /\ Len(buf.positions) = Len(buf.normals)
        /\ Len(buf.positions) = Len(buf.uvs)
        /\ Len(buf.positions) = VerticesOf(Len(probe))
        /\ \A n \in DOMAIN probe : probe[n].vertices = VerticesOf(n - 1)
        /\ buf.indices = RebasedIndices(Len(probe))
        /\ PartsClosed => \A j \in DOMAIN buf.indices : buf.indices[j] < Len(buf.positions)

\* C20 witness: a part with indices was appended to a buffer that held
\* vertices already, after a part that has indices too.
C20_Witness ==
    /\ Len(probe) >= 2
    /\ PartsClosed
    /\ probe[1].part.indices # << >>
    /\ probe[Len(probe)].part.indices # << >>
    /\ probe[Len(probe)].vertices > 0
    /\ mesh[1].indices[Len(mesh[1].indices)] >= probe[Len(probe)].vertices

\* ------------------------------------------------------------------------
\* SpecFinal: a MeshBuf made into a Mesh
\* ------------------------------------------------------------------------

U16_MAX == 2 ^ U16_BITS - 1

\* impl From<MeshBuf> for Mesh: the Indices of the mesh.  `i as u16` keeps
\* the low bits of the index.
Mesh_from(value) ==
    IF Len(value.indices) > U16_MAX
    THEN [kind |-> "U32", values |-> value.indices]
    ELSE [kind |-> "U16",
          values |-> [k \in DOMAIN value.indices |-> value.indices[k] % (U16_MAX + 1)]]

\* The parts appended before the buffer is made into a mesh: those of
\* SpecAppend, and a part with more vertices than indices.
FinalParts == TemplateParts \cup {Part("loose", 4, <<0>>)}

\* part.append_to(&mut mesh)
FinalAppend(part) ==
    /\ final = None
    /\ Len(probe) < MaxAppends
    /\ mesh' = Some(BlockMeshPart_append_to(part, mesh[1]))
    /\ probe' = Append(probe, [part |-> part, vertices |-> Len(mesh[1].positions)])
    /\ UNCHANGED <<chunkVars, built, template, mask, schedVars, ray, final, queue>>

\* Mesh::from(mesh)
Finalize ==
    /\ final = None
    /\ final' = Some(Mesh_from(mesh[1]))
    /\ UNCHANGED <<chunkVars, built, meshVars, schedVars, ray, probe, queue>>

FinalNext ==
    \/ \E part \in FinalParts : FinalAppend(part)
    \/ Finalize

SpecFinal == AppendInit /\ [][FinalNext]_vars

\* C21 as stated: the mesh has 16-bit indices exactly when the vertex count
\* of the buffer fits in 16 bits, and 32-bit indices otherwise; the indices
\* of the mesh are those of the buffer.
C21_IndexWidth ==
    final # None =>
        /\ (final[1].kind = "U16") <=> (Len(mesh[1].positions) <= U16_MAX)
        /\ final[1].values = mesh[1].indices

\* ------------------------------------------------------------------------
\* SpecCast: VoxelRaycast::raycast along +X through a world of chunks
\* ------------------------------------------------------------------------

\* BlockModel::get_bounds: the box of the unit cube for a Primitive model,
\* nothing for a block without a model and for a model whose box is empty.
get_bounds(model) ==
    IF model.kind = "Primitive"
    THEN Some([min |-> [x |-> 0, y |-> 0, z |-> 0], max |-> [x |-> 1, y |-> 1, z |-> 1]])
    ELSE None

\* RayCast3d::aabb_intersection_at for a ray along +X from a point with
\* integer coordinates: the distance at which the ray enters the closed
\* box, when it does so within max2 / 2.
aabb_intersection_at(point, max2, bounds) ==
    LET tmin == IF bounds.min.x - point.x > 0 THEN bounds.min.x - point.x ELSE 0
    IN  IF /\ bounds.min.y <= point.y /\ point.y <= bounds.max.y
           /\ bounds.min.z <= point.z /\ point.z <= bounds.max.z
           /\ point.x <= bounds.max.x
           /\ 2 * tmin <= max2
        THEN Some(tmin)
        ELSE None

\* An iterator that drops no item.
Skip_next_none(it, n) == VoxelIterator_next(it)

\* Skip::next of the iterator made by skip(1): the first call drops an item
\* of the VoxelIterator and returns the one after it.
Skip_next(it, n) ==
    IF n = 0 THEN VoxelIterator_next(it)
    ELSE CHOOSE out \in
             {IF first.item = None THEN first ELSE VoxelIterator_next(first.it) :
                 first \in {VoxelIterator_next(it)}} : TRUE

\* Query<&ChunkData>::get(chunk_id).ok()
chunks_get(ch, chunk_id) == IF chunk_id \in DOMAIN ch THEN Some(ch[chunk_id].data) ELSE None

\* The body of the loop of raycast that leaves the chunk of the cell before
\* in chunk_buf when the registry holds no chunk for the cell.
raycast_body_keep_buf(st, ch, reg, point, max2, item) ==
    LET block_pos == item.block
        stale == Some(ChunkPosFrom(block_pos)) # st.chunk_pos
        chunk_id == get_chunk(reg, ChunkPosFrom(block_pos))
        chunk_buf == IF stale /\ chunk_id # None THEN chunks_get(ch, chunk_id[1])
                     ELSE st.chunk_buf
        found == [st EXCEPT !.chunk_pos = Some(ChunkPosFrom(block_pos)),
                            !.chunk_buf = chunk_buf,
                            !.lookups = IF stale THEN @ + 1 ELSE @]
    IN  IF chunk_buf = None THEN [found EXCEPT !.block_id = None]
        ELSE LET block_id == get(chunk_buf[1], block_pos)
                 bounds == get_bounds(block_models_get(block_id))
                 block_dist ==
                     IF bounds = None THEN None
                     ELSE aabb_intersection_at(point, max2,
                              [min |-> [a \in {"x", "y", "z"} |->
                                           bounds[1].min[a] + block_pos[a]],
                               max |-> [a \in {"x", "y", "z"} |->
                                           bounds[1].max[a] + block_pos[a]]])
             IN  IF block_models_get(block_id).kind = Err \/ block_dist = None
                 THEN [found EXCEPT !.block_id = Some(block_id)]
                 ELSE [found EXCEPT !.block_id = Some(block_id),
                                    !.hit = Some([block |-> block_pos,
                                                  face |-> item.face,
                                                  distance |-> block_dist[1],
                                                  hit_pos |-> [point EXCEPT
                                                      !.x = @ + block_dist[1]]])]

\* The body of the loop of raycast for the cell and the face of item: the
\* registry is asked when the chunk coordinate of the cell is not chunk_pos;
\* the block of the cell is read from chunk_buf, its model and its box are
\* looked up and the box, moved to the cell, is tested against the ray.
raycast_body(st, ch, reg, point, max2, item) ==
    LET block_pos == item.block
        stale == Some(ChunkPosFrom(block_pos)) # st.chunk_pos
        chunk_id == get_chunk(reg, ChunkPosFrom(block_pos))
        chunk_buf == IF ~stale THEN st.chunk_buf
                     ELSE IF chunk_id = None THEN None
                     ELSE chunks_get(ch, chunk_id[1])
        found == [st EXCEPT !.chunk_pos = Some(ChunkPosFrom(block_pos)),
                            !.chunk_buf = chunk_buf,
                            !.lookups = IF stale THEN @ + 1 ELSE @]
    IN  IF chunk_buf = None THEN [found EXCEPT !.block_id = None]
        ELSE LET block_id == get(chunk_buf[1], block_pos)
                 bounds == get_bounds(block_models_get(block_id))
                 block_dist ==
                     IF bounds = None THEN None
                     ELSE aabb_intersection_at(point, max2,
                              [min |-> [a \in {"x", "y", "z"} |->
                                           bounds[1].min[a] + block_pos[a]],
                               max |-> [a \in {"x", "y", "z"} |->
                                           bounds[1].max[a] + block_pos[a]]])
             IN  IF block_models_get(block_id).kind = Err \/ block_dist = None
                 THEN [found EXCEPT !.block_id = Some(block_id)]
                 ELSE [found EXCEPT !.block_id = Some(block_id),
                                    !.hit = Some([block |-> block_pos,
                                                  face |-> item.face,
                                                  distance |-> block_dist[1],
                                                  hit_pos |-> [point EXCEPT
                                                      !.x = @ + block_dist[1]]])]

\* The chunk data of the worlds of SpecCast: air with the blocks of cells.
RECURSIVE with_blocks(_, _)
with_blocks(chunk_data, cells) ==
    IF cells = << >> THEN chunk_data
    ELSE with_blocks(set(chunk_data, Head(cells)[1], Head(cells)[2]).chunk, Tail(cells))

\* The world after spawn_chunk for each chunk of spawns.
RECURSIVE with_chunks(_, _)
with_chunks(w, spawns) ==
    IF spawns = << >> THEN w
    ELSE with_chunks(spawn_chunk_apply(w, Head(spawns)[1],
                                       with_blocks(fill("air"), Head(spawns)[2])),
                     Tail(spawns))

\* The worlds the rays are cast through: no chunk at all; one chunk with
\* grass in the cell of an origin, blocks without a box and grass behind
\* them; chunks west and east of a coordinate without a chunk; and the
\* second of these with the entity of the chunk gone from the query.
CastWorlds ==
    LET one == with_chunks(EmptyWorld,
                   <<<<ChunkPos(0, 0, 0),
                       <<<<BlockPos(0, 0, 0), "grass">>,
                         <<BlockPos(1, 0, 0), "statue">>,
                         <<BlockPos(2, 0, 0), "stale">>,
                         <<BlockPos(3, 0, 0), "grass">>,
                         <<BlockPos(1, 1, 3), "grass">>>>>>>>)
        gap == with_chunks(EmptyWorld,
                   <<<<ChunkPos(-1, 0, 0),
                       <<<<BlockPos(-2, 1, 3), "grass">>,
                         <<BlockPos(-3, 1, 3), "grass">>,
                         <<BlockPos(-2, 1, 1), "grass">>,
                         <<BlockPos(-4, 0, 0), "grass">>>>>>,
                     <<ChunkPos(1, 0, 0),
                       <<<<BlockPos(CHUNK_SIZE + 1, 1, 3), "grass">>,
                         <<BlockPos(CHUNK_SIZE + 2, 0, 0), "grass">>>>>>>>)
    IN  {EmptyWorld, one, gap, [one EXCEPT !.chunks = Without(@, 1)]}

CastInit ==
    /\ ChunkIdle
    /\ built = None
    /\ MeshIdle
    /\ probe = None
    /\ final = None
    /\ queue = None
    /\ changed = {}
    /\ ran = {}
    /\ buffers = << >>
    /\ obs = << >>
    /\ log = None
    /\ tick = 0
    /\ clicks = 0
    /\ panicked = FALSE
    /\ frame = None
    /\ \E w \in CastWorlds :
          /\ chunks = w.chunks
          /\ registry = w.registry
          /\ entities = w.entities
    /\ \E point \in RayOrigins, dir \in RayDirections, n2 \in RayDistances :
          ray = Some([point |-> point, dir |-> dir, d2 |-> n2,
                      it |-> VoxelIterator_new(point, dir, Fin(n2)),
                      cells |-> << >>,
                      chunk_pos |-> None,
                      chunk_buf |-> None,
                      block_id |-> None,
                      lookups |-> 0,
                      hit |-> None,
                      done |-> FALSE])

\* One turn of the loop of raycast: the next item of the iterator, and the
\* body of the loop for it.  The face of a hit is unwrapped.
CastStep ==
    /\ ~panicked
    /\ ~ray[1].done
    /\ Len(ray[1].cells) < MaxCells
    /\ \E r \in {Skip_next(ray[1].it, IF ray[1].cells = << >> THEN 1 ELSE 0)} :
          IF r.item = None
          THEN /\ ray' = Some([ray[1] EXCEPT !.it = r.it, !.done = TRUE])
               /\ UNCHANGED panicked
          ELSE \E st \in {raycast_body(ray[1], chunks, registry, ray[1].point, ray[1].d2,
                                       r.item[1])} :
                  /\ ray' = Some([st EXCEPT
                                    !.it = r.it,
                                    !.cells = IF ray[1].cells = << >>
                                              THEN <<[block |-> BlockPos_from_vec3(ray[1].point),
                                                      face |-> None], r.item[1]>>
                                              ELSE Append(@, r.item[1]),
                                    !.done = (st.hit # None)])
                  /\ panicked' = (st.hit # None /\ st.hit[1].face = None)
    /\ UNCHANGED <<chunkVars, built, meshVars, probe, final, queue, chunks, registry, entities,
                   changed, ran, buffers, obs, log, tick, clicks, frame>>

CastNext == CastStep

SpecCast == CastInit /\ [][CastNext]_vars

\* The chunk data the registry and the chunk query hold for the chunk
\* coordinate of a cell, or None.
ChunkOf(block_pos) ==
    LET chunk_id == get_chunk(registry, ChunkPosFrom(block_pos))
    IN  IF chunk_id = None THEN None ELSE chunks_get(chunks, chunk_id[1])

\* The distance at which the ray of SpecCast meets the box of the block of
\* a cell, or None when the cell has no chunk, the block no model or no box,
\* or the ray misses the box.
BoxHit(block_pos) ==
    IF ChunkOf(block_pos) = None THEN None
    ELSE LET model == block_models_get(get(ChunkOf(block_pos)[1], block_pos))
         IN  IF model.kind = Err \/ get_bounds(model) = None THEN None
             ELSE aabb_intersection_at(ray[1].point, ray[1].d2,
                      [min |-> [a \in {"x", "y", "z"} |-> block_pos[a]],
                       max |-> [a \in {"x", "y", "z"} |-> block_pos[a] + 1]])

\* The hit raycast returns for the cell of an item and the distance dist.
HitAt(item, dist) ==
    Some([block |-> item.block, face |-> item.face, distance |-> dist,
          hit_pos |-> [ray[1].point EXCEPT !.x = @ + dist]])

\* The cells of the coarse traversal taken so far, behind those of skip:
\* none of them but the last was a hit, and the last is the hit returned if
\* it is one.
FirstHitBehind(skip) ==
    LET r == ray[1]
    IN  /\ ~panicked
        /\ \A i \in (skip + 1) .. Len(r.cells) :
              IF BoxHit(r.cells[i].block) = None
              THEN i = Len(r.cells) => r.hit = None
              ELSE /\ i = Len(r.cells)
                   /\ r.hit = HitAt(r.cells[i], BoxHit(r.cells[i].block)[1])
                   /\ r.cells[i].face # None
        /\ r.hit # None => r.done /\ Len(r.cells) > skip

\* C23 as stated: raycast returns the first cell of the coarse traversal
\* whose block has a box the ray meets, with its position, the face it was
\* entered through, the distance and the hit point; cells without a chunk,
\* a model or a box are passed over, no hit is returned when no cell
\* qualifies, and the face of a hit is defined.
C23_FirstCellHit == FirstHitBehind(0)

\* C23 amended: the same of the first cell behind the origin cell of the
\* traversal; the origin cell itself is never tested.
C23_FirstCellBehindOrigin == FirstHitBehind(1)

\* C23 witness: a hit returned behind a cell whose block has no model and
\* a cell whose block has no box.
C23_Witness ==
    /\ ray[1].hit # None
    /\ \E i \in 2 .. Len(ray[1].cells) :
          /\ ChunkOf(ray[1].cells[i].block) # None
          /\ block_models_get(get(ChunkOf(ray[1].cells[i].block)[1],
                                  ray[1].cells[i].block)).kind = Err
    /\ \E i \in 2 .. Len(ray[1].cells) :
          /\ ChunkOf(ray[1].cells[i].block) # None
          /\ get(ChunkOf(ray[1].cells[i].block)[1], ray[1].cells[i].block) = "statue"

\* C25: at every cell of a raycast the chunk the block is read from is the
\* chunk the registry holds for the chunk coordinate of the cell, or none
\* when it holds none, and the block read is the block of that chunk at the
\* cell, although the registry is asked only when the chunk coordinate
\* changes.
C25_CacheIsRegistry ==
    LET r == ray[1]
    IN  Len(r.cells) >= 2 =>
            LET block_pos == r.cells[Len(r.cells)].block
            IN  /\ r.chunk_pos = Some(ChunkPosFrom(block_pos))
                /\ r.chunk_buf = ChunkOf(block_pos)
                /\ r.block_id = IF ChunkOf(block_pos) = None THEN None
                                ELSE Some(get(ChunkOf(block_pos)[1], block_pos))
                /\ r.lookups <= Len(r.cells) - 1

\* C25 witness: the ray went from a chunk into a coordinate without a chunk
\* and on into another chunk, the registry was asked fewer times than cells
\* were read, and the raycast ended in a hit.
C25_Witness ==
    /\ ray[1].hit # None
    /\ ray[1].lookups >= 3
    /\ ray[1].lookups < Len(ray[1].cells) - 1
    /\ \E i \in 2 .. Len(ray[1].cells) : ChunkOf(ray[1].cells[i].block) = None

\* ------------------------------------------------------------------------
\* SpecParts: the parts of one chunk reconciled with the models built
\* ------------------------------------------------------------------------

\* The materials of the models of SpecParts.
PartMaterials == {"overworld", "nether", "end"}

\* The lists of models build_models can return in the remesh numbered name:
\* at most MaxParts models, no two of one material.
ModelLists(name) ==
    {[i \in DOMAIN l |-> [material |-> l[i], mesh |-> <<name, l[i]>>]] :
        l \in UNION {Perms(S) : S \in {T \in SUBSET PartMaterials : Cardinality(T) <= MaxParts}}}

PartsInit ==
    /\ ChunkIdle
    /\ built = None
    /\ MeshIdle
    /\ PureIdle
    /\ changed = {}
    /\ ran = {}
    /\ buffers = << >>
    /\ obs = << >>
    /\ log = None
    /\ tick = 0
    /\ clicks = 0
    /\ panicked = FALSE
    /\ frame = None
    /\ \E n \in 0 .. MaxParts :
          /\ chunks = (1 :> [pos |-> ChunkPos(0, 0, 0), data |-> fill("grass"),
                             unique_blocks |-> {},
                             NeedsRemesh |-> TRUE,
                             NeedsRemeshLater |-> None,
                             children |-> [i \in 1 .. n |->
                                              [id |-> i + 1, material |-> "overworld",
                                               mesh |-> <<0, i>>]]])
          /\ entities = n + 1
    /\ registry = (ChunkPos(0, 0, 0) :> 1)

\* The loop of remesh for the chunk, with models built for it, and the
\* commands it queued applied.
PartsRemesh(models) ==
    /\ tick < MaxFrames
    /\ chunks[1].NeedsRemesh
    /\ \E r \in {reconcile(chunks[1], 1, models)} :
          \E w \in {apply_commands(World([chunks EXCEPT ![1] = r.chunk], registry, entities),
                                   r.commands)} :
              /\ chunks' = w.chunks
              /\ entities' = w.entities
              /\ panicked' = w.panicked
              /\ log' = Some([before |-> chunks[1], models |-> models,
                              commands |-> r.commands])
    /\ tick' = tick + 1
    /\ UNCHANGED <<chunkVars, built, meshVars, pureVars, registry, changed, ran, buffers, obs,
                   clicks, frame>>

\* An edit of the chunk marks it again.
PartsMark ==
    /\ ~chunks[1].NeedsRemesh
    /\ chunks' = apply_command(World(chunks, registry, entities), insert_NeedsRemesh(1)).chunks
    /\ UNCHANGED <<chunkVars, built, meshVars, pureVars, registry, entities, changed, ran,
                   buffers, obs, log, tick, clicks, panicked, frame>>

PartsNext ==
    \/ \E models \in ModelLists(tick + 1) : PartsRemesh(models)
    \/ PartsMark

SpecParts == PartsInit /\ [][PartsNext]_vars

\* The entities of the parts of a chunk.
PartIds(c) == {c.children[i].id : i \in DOMAIN c.children}

Least(a, b) == IF a < b THEN a ELSE b

Excess(a, b) == IF a > b THEN a - b ELSE 0

\* C26: after a remesh of a chunk that had n parts and for which m models
\* were built, the chunk has m parts and each model is shown by exactly one
\* of them; min(n, m) parts are those from before with a new mesh and
\* material, the n - m parts left over are gone and m - n parts are new.
C26_PartsReconciled ==
    (log # None /\ ~chunks[1].NeedsRemesh) =>
        LET before == log[1].before
            models == log[1].models
            after == chunks[1]
            n == Len(before.children)
            m == Len(models)
        IN  /\ ~panicked
            /\ Len(after.children) = m
            /\ Cardinality(PartIds(after)) = m
            /\ \A j \in DOMAIN models :
                  Cardinality({i \in DOMAIN after.children :
                                  /\ after.children[i].mesh = models[j].mesh
                                  /\ after.children[i].material = models[j].material}) = 1
            /\ Cardinality(PartIds(after) \cap PartIds(before)) = Least(n, m)
            /\ Cardinality(PartIds(before) \ PartIds(after)) = Excess(n, m)
            /\ Cardinality(PartIds(after) \ PartIds(before)) = Excess(m, n)

\* C26 witness: a remesh of a chunk with more parts than models were built,
\* and at least one model: a part was reused and a part was removed.
C26_Witness ==
    /\ log # None
    /\ ~chunks[1].NeedsRemesh
    /\ Len(log[1].models) >= 1
    /\ Len(log[1].before.children) > Len(log[1].models)
    /\ Len(chunks[1].children) = Len(log[1].models)

\* ------------------------------------------------------------------------
\* SpecRemesh: remesh on one chunk with blocks of every kind of model
\* ------------------------------------------------------------------------

\* The chunks remeshed: those made by fill and at most one call of set.
RemeshData == EditedChunks(1)

RemeshInit ==
    /\ data \in RemeshData
    /\ slots = [i \in Slots |-> "air"]
    /\ ops = 0
    /\ last = [op |-> "idle"]
    /\ built = None
    /\ MeshIdle
    /\ PureIdle
    /\ \E later \in {None, Some(NeedsRemeshLater_default)} :
          chunks = (1 :> [pos |-> ChunkPos(0, 0, 0), data |-> data,
                          unique_blocks |-> {},
                          NeedsRemesh |-> TRUE,
                          NeedsRemeshLater |-> later,
                          children |-> << >>])
    /\ registry = (ChunkPos(0, 0, 0) :> 1)
    /\ entities = 1
    /\ changed = {}
    /\ ran = {}
    /\ buffers = << >>
    /\ obs = << >>
    /\ log = None
    /\ tick = 0
    /\ clicks = 0
    /\ panicked = FALSE
    /\ frame = None

\* remesh runs on the chunk and its commands are applied; built keeps the
\* buffers build_models made for the chunk.
RemeshOne ==
    /\ built = None
    /\ built' = Some([occluded_by |-> BlockDataOccludedBy_from_block_data(data),
                      models |-> build_models(data)])
    /\ \E r \in {remesh(chunks)} :
          \E w \in {apply_commands(World(r.chunks, registry, entities), r.commands)} :
              /\ chunks' = w.chunks
              /\ entities' = w.entities
              /\ panicked' = w.panicked
              /\ log' = Some([commands |-> r.commands])
    /\ UNCHANGED <<chunkVars, meshVars, pureVars, registry, changed, ran, buffers, obs, tick,
                   clicks, frame>>

RemeshNext == RemeshOne

SpecRemesh == RemeshInit /\ [][RemeshNext]_vars

\* The model lookup of the block at a position of the chunk gives a
\* primitive model.
PrimitiveAt(pos) == block_models_get(BlockAt(pos)).kind = "Primitive"

\* C27: a block whose model lookup fails or whose model is not primitive
\* adds no vertex and no index to any buffer; every other block of the chunk
\* is meshed as without it, with the faces that are not occluded; and the
\* remesh removes both markers of the chunk all the same.
C27_FailedLookupSkipped ==
    built # None =>
        /\ \A faces \in {BuiltFaces} :
              /\ \A face \in faces : PrimitiveAt(face[1])
              /\ \A pos \in ChunkPositions :
                    PrimitiveAt(pos) =>
                        \A f \in PartSet \ {"center"} :
                            (<<pos, f>> \in faces) <=> (DirOf(f) \notin OccludedByAt(pos))
        /\ \A m \in DOMAIN built[1].models :
              /\ Len(built[1].models[m].positions) =
                     4 * Cardinality(FacesOf(built[1].models[m]))
              /\ Len(built[1].models[m].indices) =
                     6 * Cardinality(FacesOf(built[1].models[m]))
        /\ ~panicked
        /\ ~chunks[1].NeedsRemesh
        /\ chunks[1].NeedsRemeshLater = None
        /\ {chunks[1].children[i].material : i \in DOMAIN chunks[1].children}
               = DOMAIN built[1].models

\* C27 witness: a chunk with a block whose model lookup fails and primitive
\* blocks around it was remeshed, and the buffer of their material holds
\* faces.
C27_Witness ==
    /\ built # None
    /\ \E pos \in ChunkPositions : block_models_get(BlockAt(pos)).kind = Err
    /\ \E pos \in ChunkPositions : PrimitiveAt(pos)
    /\ BuiltFaces # {}
    /\ Len(chunks[1].children) = 1

\* ------------------------------------------------------------------------
\* SpecRespawn: spawn_chunk and despawn_chunk on a world that is remeshed
\* ------------------------------------------------------------------------

\* remesh and update_block_handles run on the chunks that hold NeedsRemesh
\* and the commands of remesh are applied; log keeps the world before.
WorldRemesh ==
    /\ \E e \in DOMAIN chunks : chunks[e].NeedsRemesh
    /\ \E r \in {remesh(update_block_handles(chunks))} :
          \E w \in {apply_commands(World(r.chunks, registry, entities), r.commands)} :
              /\ chunks' = w.chunks
              /\ entities' = w.entities
              /\ panicked' = w.panicked
    /\ log' = Some([command |-> [op |-> "remesh"],
                    before |-> World(chunks, registry, entities)])
    /\ UNCHANGED <<registry, changed, ran, buffers, obs, tick, clicks, otherVars>>

RespawnNext ==
    \/ \E pos \in WorldPositions, chunk_data \in WorldData : SpawnChunk(pos, chunk_data)
    \/ \E pos \in WorldPositions : DespawnChunk(pos)
    \/ WorldRemesh

SpecRespawn == WorldInit /\ [][RespawnNext]_vars

\* C29 as stated: spawn_chunk on a coordinate that holds a chunk leaves the
\* chunk with NeedsRemesh, as a first spawn does; a command that changes the
\* block data of a loaded chunk leaves the chunk with NeedsRemesh or
\* despawned.
C29_RespawnMarks ==
    log # None =>
        LET c == log[1].command
            before == log[1].before
        IN  /\ c.op = "spawn_chunk" =>
                  /\ c.pos[1] \in DOMAIN registry
                  /\ registry[c.pos[1]] \in DOMAIN chunks
                  /\ chunks[registry[c.pos[1]]].NeedsRemesh
            /\ \A e \in DOMAIN before.chunks \cap DOMAIN chunks :
                  chunks[e].data # before.chunks[e].data => chunks[e].NeedsRemesh

\* ------------------------------------------------------------------------
\* SpecJobs: ScriptEngineJobQueue::run_jobs
\* ------------------------------------------------------------------------

\* What a job does when it is called, and the jobs that follow from it: a
\* chain of kinds.  A job with the chain <<"future", "job">> enqueues a
\* future; the job that future resolves to enqueues a job; that job
\* enqueues nothing.
RECURSIVE ChainsOf(_)
ChainsOf(k) ==
    IF k = 0 THEN {<< >>}
    ELSE ChainsOf(k - 1)
             \cup {<<kind>> \o c : kind \in {"job", "future"},
                                   c \in {d \in ChainsOf(k - 1) : Len(d) = k - 1}}

Chains == ChainsOf(MaxChain)

\* A FutureJob that resolves to the job of chain.
FutureJob(chain) == [chain |-> chain, ready |-> FALSE]

\* enqueue_promise_job
enqueue_promise_job(q, job) == [q EXCEPT !.jobs = Append(@, job)]

\* enqueue_future_job
enqueue_future_job(q, future) == [q EXCEPT !.futures = Append(@, future)]

\* job.call(context): the job enqueues what its chain begins with.
call(q, job) ==
    IF job = << >> THEN q
    ELSE IF Head(job) = "job" THEN enqueue_promise_job(q, Tail(job))
    ELSE enqueue_future_job(q, FutureJob(Tail(job)))

\* finished | bit, for bit 1 or 2
BitOr(a, bit) == a + bit - BitAnd(a, bit)

\* The jobs of the futures of a list that are ready, and the futures that
\* are not.
ReadyJobs(futures) ==
    LET ready == SelectSeq(futures, LAMBDA f : f.ready)
    IN  [k \in DOMAIN ready |-> ready[k].chain]

Pending(futures) == SelectSeq(futures, LAMBDA f : ~f.ready)

\* fut_queue from the top of its loop, and from the await of futures.next(),
\* up to the point where it yields, waits or returns.  taken is the
\* FuturesUnordered taken out of self.futures.
RECURSIVE fut_queue(_)
fut_queue_await(q) ==
    LET jobs == ReadyJobs(q.taken)
        next == [q EXCEPT !.jobs = @ \o jobs, !.taken = Pending(q.taken)]
    IN  IF next.taken # << >> THEN [next EXCEPT !.fut = "await"]
        ELSE fut_queue(next)

fut_queue(q) ==
    IF q.shutdown THEN [q EXCEPT !.fut = "done"]
    ELSE IF q.futures = << >>
    THEN IF BitOr(q.finished, 1) >= 3
         THEN [q EXCEPT !.finished = BitOr(@, 1), !.fut = "done"]
         ELSE [q EXCEPT !.finished = BitOr(@, 1), !.fut = "yield"]
    ELSE fut_queue_await([q EXCEPT !.finished = BitAnd(@, 2),
                                   !.taken = q.futures,
                                   !.futures = << >>])

\* job_queue from the top of its loop, and from the yield in its for loop
\* over the jobs taken out of self.jobs, up to the point where it yields or
\* returns.
RECURSIVE job_queue(_)
job_queue_for(q) ==
    IF q.local = << >> THEN job_queue(q)
    ELSE [call([q EXCEPT !.local = Tail(@)], Head(q.local)) EXCEPT !.job = "for"]

job_queue(q) ==
    IF q.shutdown THEN [q EXCEPT !.job = "done"]
    ELSE IF q.jobs = << >>
    THEN IF BitOr(q.finished, 2) >= 3
         THEN [q EXCEPT !.finished = BitOr(@, 2), !.job = "done"]
         ELSE [q EXCEPT !.finished = BitOr(@, 2), !.job = "yield"]
    ELSE job_queue_for([q EXCEPT !.finished = BitAnd(@, 1),
                                 !.local = q.jobs,
                                 !.jobs = << >>])

\* zip polls fut_queue, then job_queue, and is done when both are.
NextTurn(q, turn) ==
    [q EXCEPT !.turn = IF turn = "fut" /\ q.job # "done" THEN "job"
                       ELSE IF turn = "job" /\ q.fut # "done" THEN "fut"
                       ELSE q.turn,
              !.state = IF q.fut = "done" /\ q.job = "done" THEN "returned" ELSE @]

\* The queues run_jobs is called on: at most one job and one future.
JobLists == {<< >>} \cup {<<c>> : c \in Chains}

FutureLists == {<< >>} \cup {<<FutureJob(c)>> : c \in Chains}

JobsInit ==
    /\ ChunkIdle
    /\ built = None
    /\ MeshIdle
    /\ SchedIdle
    /\ ray = None
    /\ probe = None
    /\ final = None
    /\ \E jobs \in JobLists, futures \in FutureLists :
          queue = Some([jobs |-> jobs, futures |-> futures, taken |-> << >>,
                        local |-> << >>, finished |-> 0, shutdown |-> FALSE,
                        fut |-> "top", job |-> "top", turn |-> "fut", state |-> "idle"])

\* run_jobs is called: it returns at once when both queues are empty.
RunJobs ==
    /\ queue[1].state = "idle"
    /\ queue' = Some([queue[1] EXCEPT
                        !.state = IF queue[1].jobs = << >> /\ queue[1].futures = << >>
                                  THEN "returned" ELSE "running"])
    /\ UNCHANGED <<chunkVars, built, meshVars, schedVars, ray, probe, final>>

\* fut_queue is polled.
PollFut ==
    /\ queue[1].state = "running"
    /\ queue[1].turn = "fut"
    /\ queue[1].fut # "done"
    /\ \E q \in {IF queue[1].fut = "await" THEN fut_queue_await(queue[1])
                 ELSE fut_queue(queue[1])} :
          queue' = Some(NextTurn(q, "fut"))
    /\ UNCHANGED <<chunkVars, built, meshVars, schedVars, ray, probe, final>>

\* job_queue is polled.
PollJob ==
    /\ queue[1].state = "running"
    /\ queue[1].turn = "job"
    /\ queue[1].job # "done"
    /\ \E q \in {IF queue[1].job = "for" THEN job_queue_for(queue[1])
                 ELSE job_queue(queue[1])} :
          queue' = Some(NextTurn(q, "job"))
    /\ UNCHANGED <<chunkVars, built, meshVars, schedVars, ray, probe, final>>

\* A future that fut_queue awaits, or that waits in self.futures, becomes
\* ready.
Complete ==
    /\ queue[1].state = "running"
    /\ \/ \E i \in DOMAIN queue[1].taken :
             /\ ~queue[1].taken[i].ready
             /\ queue' = Some([queue[1] EXCEPT !.taken[i].ready = TRUE])
       \/ \E i \in DOMAIN queue[1].futures :
             /\ ~queue[1].futures[i].ready
             /\ queue' = Some([queue[1] EXCEPT !.futures[i].ready = TRUE])
    /\ UNCHANGED <<chunkVars, built, meshVars, schedVars, ray, probe, final>>

\* ScriptEngineShutdown::shutdown on another thread.
Shutdown ==
    /\ queue[1].state = "running"
    /\ ~queue[1].shutdown
    /\ queue' = Some([queue[1] EXCEPT !.shutdown = TRUE])
    /\ UNCHANGED <<chunkVars, built, meshVars, schedVars, ray, probe, final>>

JobsNext ==
    \/ RunJobs
    \/ PollFut
    \/ PollJob
    \/ Complete
    \/ Shutdown

SpecJobs == JobsInit /\ [][JobsNext]_vars

\* C30 as stated: unless a shutdown was requested, run_jobs has returned
\* only when the promise-job queue and the pending futures are both empty:
\* no job and no future enqueued before or while it ran is left.
C30_ReturnsWhenDrained ==
    (queue[1].state = "returned" /\ ~queue[1].shutdown) =>
        /\ queue[1].jobs = << >>
        /\ queue[1].futures = << >>
        /\ queue[1].taken = << >>
        /\ queue[1].local = << >>

====
